---- MODULE Spec2Model ----
(***************************************************************************)
(* A model of the BKV scraper, src/kirchenväter-auto/scraper_agent.py.     *)
(*                                                                         *)
(* A crawled site is a record: the version root page (author, title, kind  *)
(* of table of contents) and its division pages.  A division page is a     *)
(* heading, a body (a sequence of block elements, each a sequence of       *)
(* inline items: text runs, <br> markers, superscripts, footnote           *)
(* references) and a footnote list.  process_version is a state machine    *)
(* whose steps are the fetch and parse of the version page, one turn of    *)
(* the loop per entry of the table of contents, the pruning of the notes,  *)
(* and the upserts; the store is one set of rows per table.                *)
(*                                                                         *)
(* Six specifications share the state.  Spec follows one version through   *)
(* process_version with a store that applies every batch; DbSpec does the  *)
(* same with a store that may reject a batch or fail.  MainSpec follows    *)
(* main over the discovered versions (MainFair adds that the loop goes     *)
(* on).  HttpSpec follows the requests of HttpClient.fetch and of the      *)
(* synthetic probes in time.  RoleSpec applies the two passes of the       *)
(* section classifier to one unit.  DiscoverSpec follows discover_versions *)
(* over the pages of the works list (DiscoverFair adds that the loop goes  *)
(* on).  The variables a specification does not follow keep their initial  *)
(* values.                                                                 *)
(***************************************************************************)
EXTENDS Integers, Sequences, FiniteSets, TLC

(***************************************************************************)
(* Bounds of the model.                                                    *)
(***************************************************************************)
MaxToc == 3        \* entries of an explicit table of contents
MaxDepth == 1      \* deepest nesting (depth 0..MaxDepth) of a TOC entry
MaxDivs == 5       \* division pages of a site without a TOC
MaxRuns == 2       \* times the same version is processed
MaxFailures == 1   \* fetches and upserts that fail, per behaviour

(***************************************************************************)
(* The state.                                                              *)
(***************************************************************************)
VARIABLES
    site,              \* the crawled site (never changes)
    max_sections,      \* the parameter of process_version, 0 for None
    run,               \* which processing of the version this is
    pc,                \* "start", "loop", "upsert" (the rows are built) or "done"
    idx,               \* the loop index over toc_entries
    toc_entries, author, work,
    sections, passages, verses, notes_lookup, notes_list, note_links, assets,
    section_stack, section_profiles,
    uuid_count,        \* identifiers drawn by generate_uuid so far
    failures,          \* fetches and upserts that have failed
    probe_error,       \* the synthetic probe at which httpx.get raised, 0 for none
    store,             \* the rows of each table of the database
    history,           \* one record per finished processing
    skipped,           \* the loop indexes whose division fetch raised, this processing
    cancelled,         \* the await at which the run was cancelled, None if it was not
    store0,            \* the store as it was when this processing began
    probes,            \* the synthetic division requests parse_toc sent, this processing
    db_faulty,         \* the store may reject a batch, fail, or the run be cancelled there
    upsert_log,        \* the batches sent in this processing and how each ended
    \* main: the loop over the discovered versions
    version_urls,      \* what discover_versions returned
    resume_from,       \* args.resume_from, None without the option
    skip,              \* the resume flag of main
    vpos,              \* the position of the loop in version_urls
    attempted,         \* one record per call of process_version
    qa_rows,           \* the qa_rows collected so far
    qa_csv,            \* the rows of the QA summary file, once it is written
    mpc,               \* "loop", "written", or "aborted" when an exception left main
    \* HttpClient and the requests sent to the site
    now,               \* time.monotonic(), in ticks
    min_interval,      \* 1.0 / self.rate, in ticks
    last_request_ts,   \* self._last_request_ts
    hpc,               \* "idle", "throttle", "get" or "wait"
    attempt,           \* the attempt of the current call of fetch, 0 outside a call
    last_result,       \* how the last attempt ended
    call_result,       \* how the last call of fetch ended: "returned" or "raised"
    retried_other,     \* an attempt that got another response was made again
    requests,          \* the number of requests sent so far
    last_sent,         \* when the last request was sent
    gap,               \* the time between the last two requests, -1 before the second
    \* the section classifier applied to one unit
    unit,              \* what the classifier is given for the unit
    pre_result,        \* what classify_section_role_pre_content returned
    post_result,       \* what refine_section_role_post_content returned
    rpc,               \* "input", "pre" or "post"
    \* discover_versions: the loop over the pages of the works list
    index_pages,       \* the pages of the works list, by URL (never changes)
    args_max_works,    \* the parameter of discover_versions, 0 for None
    next_url,          \* the local next_url, None once there is no next page
    visited_pages,     \* the local visited_pages
    discovered,        \* the local discovered
    fetched,           \* the URLs fetch_soup was called with, in order
    dpc                \* "loop", "returned", or "raised" when the fetch raised

locals == <<toc_entries, author, work, sections, passages, verses, notes_lookup,
            notes_list, note_links, assets, section_stack, section_profiles>>

marks == <<skipped, cancelled, store0, probes>>

dbvars == <<db_faulty, upsert_log>>

mainvars == <<version_urls, resume_from, skip, vpos, attempted, qa_rows, qa_csv, mpc>>

httpvars == <<now, min_interval, last_request_ts, hpc, attempt, last_result,
              call_result, retried_other, requests, last_sent, gap>>

rolevars == <<unit, pre_result, post_result, rpc>>

discvars == <<index_pages, args_max_works, next_url, visited_pages, discovered, fetched, dpc>>

\* the variables of the other parts of the program
elsewhere == <<mainvars, httpvars, rolevars, discvars>>

\* the variables of process_version and of the store
procvars == <<site, max_sections, run, pc, idx, locals, uuid_count, failures,
              probe_error, store, history, marks, dbvars>>

vars == <<procvars, elsewhere>>

(***************************************************************************)
(* Helpers on sequences.                                                   *)
(***************************************************************************)
Range(s) == {s[i] : i \in DOMAIN s}

SeqsUpTo(S, n) == UNION {[1..k -> S] : k \in 0..n}

RECURSIVE SumSeq(_)
SumSeq(s) == IF s = <<>> THEN 0 ELSE Head(s) + SumSeq(Tail(s))

RECURSIVE Flatten(_)
Flatten(ss) == IF ss = <<>> THEN <<>> ELSE Head(ss) \o Flatten(Tail(ss))

RECURSIVE SelectIdx(_, _, _)
\* the indices i >= from of s, in order, with s[i] in the set keep
SelectIdx(s, keep, from) ==
    IF from > Len(s) THEN <<>>
    ELSE (IF s[from] \in keep THEN <<from>> ELSE <<>>) \o SelectIdx(s, keep, from + 1)

Min(a, b) == IF a < b THEN a ELSE b

(***************************************************************************)
(* Text.  A label or heading is a string; Substrings gives, for the        *)
(* strings the model uses, the classifier vocabulary words that occur in   *)
(* it (Python's `keyword in text`).                                        *)
(***************************************************************************)
SECTION_INTRO_KEYWORDS ==
    {"einleitung", "einfuehr", "einleit", "prolog", "prologus", "proemium",
     "prolegomena", "vorwort", "vorrede", "vorbemerkung", "vorspruch", "preface",
     "introduction", "widmung", "dedikation", "dedication"}

SECTION_PREFACE_KEYWORDS ==
    {"preface", "praefatio", "praefation", "vorwort", "vorrede", "widmung",
     "dedikation", "dedication", "vorbemerkung", "prolog"}

SECTION_APPENDIX_KEYWORDS ==
    {"anhang", "anhaenge", "appendix", "appendices", "zusatz", "zusatze", "nachtrag",
     "nachtraege", "register", "index", "indices", "verzeichnis", "anhange",
     "inhalt", "inhaltverzeichnis", "tabellen", "chronologie", "bibliographie",
     "glossar"}

SECTION_COMMENTARY_KEYWORDS ==
    {"kommentar", "commentar", "commentarius", "auslegung", "exkurs", "interpretation",
     "erklarung", "erlaeuterung", "erlaeuterungen", "bemerkung", "bemerkungen",
     "analyse", "glosse", "glossen"}

SECTION_NOTES_KEYWORDS ==
    {"anmerkung", "anmerkungen", "anmerk", "noten", "note", "notes", "notiz", "notizen",
     "fussnote", "fussnoten", "marginalien", "hinweis", "hinweise", "beilage",
     "beilagen"}

SECTION_MAIN_HINTS ==
    {"kapitel", "kap.", "cap.", "cap ", "caput", "capitulum", "buch", "liber", "tractat",
     "tractatus", "homilie", "homilia", "predigt", "rede", "brief", "epistel", "sermo",
     "sermon", "teil ", "abschnitt", "section", "lektion"}

\* the labels and headings of the modelled sites ("" is an absent one)
Labels == {"", "Vorwort", "Einleitung", "Praefatio", "Anhang", "Anmerkungen",
           "Kommentar", "Kapitel 1", "Buch II", "Text", "Abschnitt"}

\* str.lower()
Lower(s) ==
    CASE s = "Vorwort"     -> "vorwort"
      [] s = "Einleitung"  -> "einleitung"
      [] s = "Praefatio"   -> "praefatio"
      [] s = "Anhang"      -> "anhang"
      [] s = "Anmerkungen" -> "anmerkungen"
      [] s = "Kommentar"   -> "kommentar"
      [] s = "Kapitel 1"   -> "kapitel 1"
      [] s = "Buch II"     -> "buch ii"
      [] s = "Text"        -> "text"
      [] s = "Abschnitt"   -> "abschnitt"
      [] OTHER             -> s

\* the classifier vocabulary words that are substrings of the string
Substrings(s) ==
    CASE s = "vorwort"     -> {"vorwort"}
      [] s = "einleitung"  -> {"einleit", "einleitung"}
      [] s = "praefatio"   -> {"praefatio"}
      [] s = "anhang"      -> {"anhang"}
      [] s = "anmerkungen" -> {"anmerk", "anmerkung", "anmerkungen"}
      [] s = "kommentar"   -> {"kommentar"}
      [] s = "kapitel 1"   -> {"kapitel"}
      [] s = "buch ii"     -> {"buch"}
      [] s = "abschnitt"   -> {"abschnitt"}
      [] OTHER             -> {}

\* the string has a word of one to six of the upper-case letters IVXLCDM
ROMAN_NUMERAL_RE_search_str(s) == s \in {"Buch II"}

\* ' '.join(part for part in parts if part), whitespace collapsed, lower-cased:
\* modelled as the set of its lower-cased parts
_normalise_classifier_text(parts) == {Lower(p) : p \in {q \in parts : q # ""}}

_contains_keyword(text, keywords) ==
    \E p \in text : Substrings(p) \cap keywords # {}

ROMAN_NUMERAL_RE_search(text) ==
    \E p \in text : ROMAN_NUMERAL_RE_search_str(p)

_add_reason(reasons, code) ==
    IF code \in Range(reasons) THEN reasons ELSE Append(reasons, code)

(***************************************************************************)
(* Section classifier.                                                     *)
(***************************************************************************)
Roles == {"introduction", "preface", "main_text", "commentary", "notes", "appendix"}

\* mutant: the reason list is returned as it is
Fallback_none(reasons) == reasons

\* line 456: reasons or ['fallback-main']
Fallback(reasons) == IF reasons # <<>> THEN reasons ELSE <<"fallback-main">>

classify_section_role_pre_content(label, heading, level, order_index, total_sections) ==
    LET text == _normalise_classifier_text({label, heading})
        label_text == _normalise_classifier_text({label})
        R(role, code) == [role |-> role, reasons |-> _add_reason(<<>>, code)]
    IN  IF _contains_keyword(text, SECTION_INTRO_KEYWORDS)
            THEN R("introduction", "keyword:introduction")
        ELSE IF _contains_keyword(text, SECTION_PREFACE_KEYWORDS)
            THEN R("preface", "keyword:preface")
        ELSE IF _contains_keyword(text, SECTION_APPENDIX_KEYWORDS)
            THEN R("appendix", "keyword:appendix")
        ELSE IF _contains_keyword(text, SECTION_NOTES_KEYWORDS)
            THEN R("notes", "keyword:notes")
        ELSE IF _contains_keyword(text, SECTION_COMMENTARY_KEYWORDS)
            THEN R("commentary", "keyword:commentary")
        ELSE IF level = 1 /\ order_index = 1
            THEN R("introduction", "first-top-level")
        ELSE IF level = 1 /\ total_sections > 0 /\ order_index = total_sections
            THEN R("appendix", "last-top-level")
        ELSE IF ROMAN_NUMERAL_RE_search(label_text)
                \/ ROMAN_NUMERAL_RE_search(_normalise_classifier_text({heading}))
            THEN R("main_text", "roman-numeral")
        ELSE IF label_text # {} /\ _contains_keyword(label_text, SECTION_MAIN_HINTS)
            THEN R("main_text", "structural-hint")
        ELSE IF text # {} /\ _contains_keyword(text, SECTION_MAIN_HINTS)
            THEN R("main_text", "text-hint")
        ELSE [role |-> "main_text", reasons |-> Fallback(<<>>)]

\* one `if` of refine_section_role_post_content: when the role so far is one of
\* `roles` and the rest of the condition holds, add the reason and take the role
RefineStep(st, roles, cond, code, role) ==
    IF st.role \in roles /\ cond
    THEN [role |-> role, reasons |-> _add_reason(st.reasons, code)]
    ELSE st

\* mutant: only a unit that is notes already is left alone
NotesDominantExempt_notes == {"notes"}

\* line 467: role not in {'notes', 'commentary'}
NotesDominantExempt == {"notes", "commentary"}

\* mutant: a preface stays a preface
VersePromoted_intro == {"introduction"}

\* line 473: role in {'introduction', 'preface'}
VersePromoted == {"introduction", "preface"}

refine_section_role_post_content(role, reasons, word_count, contains_verses, note_count, level, order_index, total_sections, label, heading) ==
    LET text == _normalise_classifier_text({label, heading})
        s0 == [role |-> role, reasons |-> reasons]
        s1 == IF note_count > 0 /\ word_count < 80 /\ role \notin NotesDominantExempt
                  THEN RefineStep(s0, {role}, TRUE,
                                  "notes-dominant:" \o ToString(note_count), "notes")
              ELSE RefineStep(s0, {"main_text"},
                       note_count > 3
                       /\ _contains_keyword(text, SECTION_NOTES_KEYWORDS
                                                  \cup SECTION_COMMENTARY_KEYWORDS),
                       "notes-keyword-dominant", "commentary")
        s2 == RefineStep(s1, VersePromoted, contains_verses,
                         "verses-promote-main", "main_text")
        s3 == RefineStep(s2, {"main_text"},
                         _contains_keyword(text, SECTION_APPENDIX_KEYWORDS),
                         "appendix-keyword-post", "appendix")
        s4 == RefineStep(s3, {"main_text"},
                         _contains_keyword(text, SECTION_COMMENTARY_KEYWORDS),
                         "commentary-keyword-post", "commentary")
        s5 == RefineStep(s4, {"main_text"},
                         _contains_keyword(text, SECTION_NOTES_KEYWORDS) /\ note_count > 0,
                         "note-keyword-post", "notes")
        s6 == RefineStep(s5, {"main_text"},
                         level = 1 /\ order_index <= 2 /\ word_count < 180
                         /\ ~contains_verses
                         /\ _contains_keyword(text, SECTION_INTRO_KEYWORDS
                                                    \cup SECTION_PREFACE_KEYWORDS),
                         "short-early-section:" \o ToString(word_count), "introduction")
        s7 == RefineStep(s6, {"main_text"},
                         total_sections > 0 /\ order_index >= total_sections - 1
                         /\ word_count < 150 /\ ~contains_verses
                         /\ ~_contains_keyword(text, SECTION_MAIN_HINTS),
                         "trailing-short-section", "appendix")
    IN  RefineStep(s7, {"main_text"},
                   word_count < 60 /\ note_count >= 1 /\ ~contains_verses,
                   "short-with-notes", "commentary")

(***************************************************************************)
(* Division pages.  An inline item is a record [k, t, href]:               *)
(*   k = "txt"    a text run t: "" (white space), "S. 12" (a printed page  *)
(*                marker), "1." (a lone enumerator), "text" (a short run), *)
(*                "long text" (a run of 200 words)                         *)
(*   k = "br"     a <br> tag;  k = "nl"  a newline of the source           *)
(*   k = "sup"    a <sup> element with text t                              *)
(*   k = "ref"    an <a class="footnote-ref">, text t, fragment href       *)
(*   k = "supref" the same inside a <sup>                                  *)
(*   k = "ph"     the placeholder text {FNt} left by the rewriting         *)
(*   k = "img"    an <img>                                                 *)
(* A block is [tag, items]; tag "div" stands for text outside every block  *)
(* element.  A page is [status, heading, body, footnotes].                 *)
(***************************************************************************)
Txt(t) == [k |-> "txt", t |-> t, href |-> ""]
Br == [k |-> "br", t |-> "", href |-> ""]
Nl == [k |-> "nl", t |-> "", href |-> ""]
Sup(t) == [k |-> "sup", t |-> t, href |-> ""]
Ref(t, h) == [k |-> "ref", t |-> t, href |-> h]
SupRef(t, h) == [k |-> "supref", t |-> t, href |-> h]
Ph(key) == [k |-> "ph", t |-> key, href |-> ""]
Img == [k |-> "img", t |-> "", href |-> ""]

Block(tag, items) == [tag |-> tag, items |-> items]

\* a <li> of the footnote list: its id attribute and its text
Fn(id, text) == [id |-> id, text |-> text]

normalise_note_key(raw) ==
    CASE raw = ""      -> ""
      [] raw = "#"     -> ""
      [] raw = "1"     -> "1"
      [] raw = "2"     -> "2"
      [] raw = "fn:1"  -> "1"
      [] raw = "#fn:1" -> "1"
      [] raw = "fn-2"  -> "2"
      [] raw = "fn:3"  -> "3"
      [] raw = "fn:"   -> ""
      [] OTHER         -> raw

\* re.match(r'(\d+|[a-zA-Z]+)', text): the leading number or word, else text[:10]
LeadingKey(text) ==
    CASE text = "1 note" -> "1"
      [] text = "2 note" -> "2"
      [] text = "* note" -> "* note"
      [] OTHER           -> text

\* strip_page_markers, normalise_whitespace: the words an item leaves in get_text
ItemText(it) ==
    CASE it.k = "txt" -> IF it.t \in {"", "S. 12"} THEN <<>> ELSE <<it.t>>
      [] it.k \in {"sup", "ref", "supref"} -> IF it.t = "" THEN <<>> ELSE <<it.t>>
      [] it.k = "ph"  -> <<"{FN" \o it.t \o "}">>
      [] OTHER        -> <<>>

RECURSIVE ItemsText(_)
ItemsText(items) ==
    IF items = <<>> THEN <<>> ELSE ItemText(Head(items)) \o ItemsText(Tail(items))

\* len(token.split())
TokenWords(tok) == IF tok = "long text" THEN 200 ELSE IF tok = "text" THEN 10 ELSE 1

RECURSIVE WordCount(_)
WordCount(toks) == IF toks = <<>> THEN 0 ELSE TokenWords(Head(toks)) + WordCount(Tail(toks))

\* the items of a body in document order
RECURSIVE BodyItems(_)
BodyItems(body) ==
    IF body = <<>> THEN <<>> ELSE Head(body).items \o BodyItems(Tail(body))

\* href.split('#', 1)[1] if '#' in href, else nothing
Fragment(href) ==
    CASE href = "#fn:1" -> "fn:1"
      [] href = "#fn-2" -> "fn-2"
      [] OTHER          -> ""

\* lines 888-902: every a.footnote-ref with a key becomes a placeholder text; a
\* reference inside a <sup> replaces the whole <sup>
RewriteItem(it) ==
    IF it.k \in {"ref", "supref"}
    THEN LET from_href == normalise_note_key(Fragment(it.href))
             anchor_key == IF from_href # "" THEN from_href ELSE normalise_note_key(it.t)
         IN  IF anchor_key = "" THEN it ELSE Ph(anchor_key)
    ELSE it

RewriteBody(body) ==
    [b \in DOMAIN body |->
        [tag |-> body[b].tag,
         items |-> [i \in DOMAIN body[b].items |-> RewriteItem(body[b].items[i])]]]

\* lines 904-926: the (key, text) entries of the footnote list
NoteEntries(footnotes) ==
    [i \in DOMAIN footnotes |->
        LET key == normalise_note_key(footnotes[i].id)
        IN  [key |-> IF key # "" THEN key ELSE LeadingKey(footnotes[i].text),
             text |-> footnotes[i].text]]

extract_main_and_notes(page) ==
    LET html == RewriteBody(page.body)
    IN  [html |-> html,
         words |-> WordCount(ItemsText(BodyItems(html))),
         notes |-> NoteEntries(page.footnotes)]

(***************************************************************************)
(* Verse / prose extraction.                                               *)
(***************************************************************************)
\* html.count('<br')
RECURSIVE BrCount(_)
BrCount(items) ==
    IF items = <<>> THEN 0
    ELSE (IF Head(items).k = "br" THEN 1 ELSE 0) + BrCount(Tail(items))

\* text_block.split('\n') once every <br> is a newline: the raw lines, each a
\* sequence of items; cur is the line being read
RECURSIVE SplitLines(_, _)
SplitLines(items, cur) ==
    IF items = <<>> THEN <<cur>>
    ELSE IF Head(items).k \in {"br", "nl"}
         THEN <<cur>> \o SplitLines(Tail(items), <<>>)
         ELSE SplitLines(Tail(items), Append(cur, Head(items)))

\* len(raw_line) - len(raw_line.lstrip()): the leading white-space runs
RECURSIVE LeadingSpace(_)
LeadingSpace(items) ==
    IF items = <<>> \/ Head(items) # Txt("") THEN 0 ELSE 1 + LeadingSpace(Tail(items))

RECURSIVE VerseLinesOf(_)
VerseLinesOf(raw_lines) ==
    IF raw_lines = <<>> THEN <<>>
    ELSE LET clean_line == ItemsText(Head(raw_lines))
         IN  (IF clean_line = <<>> THEN <<>>
              ELSE <<[text |-> clean_line, indent |-> LeadingSpace(Head(raw_lines))]>>)
             \o VerseLinesOf(Tail(raw_lines))

\* the least number of <br> tags, and of lines, of a versified body
VERSE_MIN_BR == 3
VERSE_MIN_LINES == 3

\* mutant: three <br> tags make a verse, whatever the lines
detect_verses_tags(html) ==
    LET items == BodyItems(html)
        lines == VerseLinesOf(SplitLines(items, <<>>))
    IN  IF BrCount(items) < VERSE_MIN_BR THEN [found |-> FALSE, lines |-> <<>>]
        ELSE [found |-> TRUE, lines |-> lines]

\* [found |-> FALSE] stands for None
detect_verses(html) ==
    LET items == BodyItems(html)
        lines == VerseLinesOf(SplitLines(items, <<>>))
    IN  IF BrCount(items) < VERSE_MIN_BR THEN [found |-> FALSE, lines |-> <<>>]
        ELSE IF Len(lines) >= VERSE_MIN_LINES THEN [found |-> TRUE, lines |-> lines]
        ELSE [found |-> FALSE, lines |-> <<>>]

block_tags == {"h1", "h2", "h3", "h4", "p", "li", "blockquote"}

RECURSIVE BlockLines(_)
BlockLines(body) ==
    IF body = <<>> THEN <<>>
    ELSE LET element == Head(body)
             text_value == ItemsText(element.items)
         IN  (IF element.tag \notin block_tags \/ text_value = <<>> THEN <<>>
              ELSE <<[text |-> text_value,
                      indent |-> IF element.tag \in {"li", "blockquote"} THEN 1 ELSE 0,
                      is_heading |-> element.tag \in {"h1", "h2", "h3", "h4"}]>>)
             \o BlockLines(Tail(body))

extract_text_lines(html) ==
    LET lines == BlockLines(html)
        fallback == ItemsText(BodyItems(html))
    IN  IF lines # <<>> THEN lines
        ELSE IF fallback # <<>>
             THEN <<[text |-> fallback, indent |-> 0, is_heading |-> FALSE]>>
        ELSE <<>>

\* ENUMERATION_ONLY_RE on a text of at most six characters
IsEnumerationOnly(text) == Len(text) = 1 /\ text[1] \in {"1.", "1", "2"}

\* enumerator.rstrip('.)')
EnumeratorClean(tok) == IF tok = "1." THEN "1" ELSE tok

\* lines 1018-1028: the pending enumerator joined with the line after it, less the
\* enumerator the line repeats at its start
Combine(enumerator, text) ==
    IF text # <<>> /\ EnumeratorClean(Head(text)) = EnumeratorClean(enumerator)
    THEN <<enumerator>> \o Tail(text)
    ELSE <<enumerator>> \o text

\* pending is <<>> (None) or <<the enumerator line>>
RECURSIVE MergeFrom(_, _)
MergeFrom(lines, pending) ==
    IF lines = <<>>
    THEN IF pending = <<>> THEN <<>>
         ELSE <<[text |-> pending[1].text, indent |-> pending[1].indent,
                 is_heading |-> TRUE]>>
    ELSE LET ln == Head(lines)
         IN  IF ln.text = <<>> THEN MergeFrom(Tail(lines), pending)
             ELSE IF pending # <<>>
             THEN <<[text |-> Combine(pending[1].text[1], ln.text),
                     indent |-> Min(pending[1].indent, ln.indent),
                     is_heading |-> ln.is_heading]>>
                  \o MergeFrom(Tail(lines), <<>>)
             ELSE IF IsEnumerationOnly(ln.text)
             THEN MergeFrom(Tail(lines), <<ln>>)
             ELSE <<ln>> \o MergeFrom(Tail(lines), <<>>)

merge_enumeration_lines(lines) == MergeFrom(lines, <<>>)

\* one asset per <img> (tables are not modelled)
extract_assets(html) ==
    LET items == BodyItems(html)
    IN  [i \in 1..Len(SelectIdx(items, {Img}, 1)) |-> [kind |-> "image", order_index |-> i]]

(***************************************************************************)
(* Footnote anchors of a body (lines 1251-1267): the <sup> elements, then  *)
(* the a.footnote-ref elements, then the placeholders, each with its       *)
(* normalised text, the tag whose text is the snippet, and a marker: the   *)
(* element itself, or a fresh object() for a placeholder.  A marker is     *)
(* modelled by the position of the item, which is distinct for each.       *)
(***************************************************************************)
RECURSIVE CandidatesOf(_, _, _)
CandidatesOf(items, kinds, i) ==
    IF i > Len(items) THEN <<>>
    ELSE LET it == items[i]
             anchor_text == normalise_note_key(it.t)
         IN  (IF it.k \in kinds /\ anchor_text # ""
              THEN <<[text |-> anchor_text,
                      snippet |-> IF it.k = "ph" THEN "" ELSE it.t,
                      marker |-> i]>>
              ELSE <<>>)
             \o CandidatesOf(items, kinds, i + 1)

anchor_candidates(html) ==
    LET items == BodyItems(html)
    IN  CandidatesOf(items, {"sup", "supref"}, 1)
        \o CandidatesOf(items, {"ref", "supref"}, 1)
        \o CandidatesOf(items, {"ph"}, 1)

(***************************************************************************)
(* Table of contents.  A site is a record                                  *)
(*   [author, title, orig_title, tree, list, pages]                        *)
(* tree:  the nodes of the collapsible-tree descriptor (<<>>: none), each  *)
(*        [depth, title, href, has_valid_content, division_id]             *)
(* list:  the <li> items of the list after the "Inhaltsangabe" heading     *)
(*        (<<>>: none), each [label, href, own, sub]: own says that the    *)
(*        item has a link of its own, sub is its nested list               *)
(* pages: the division pages, pages[n] at {base}/divisions/{n}             *)
(* A URL of a division is modelled by its number, 0 standing for None.     *)
(***************************************************************************)
TocEntry(level, label, url, has_content, division_id) ==
    [level |-> level, label |-> label, url |-> url, has_content |-> has_content,
     division_id |-> division_id]

\* lines 757-791
TreeEntries(tree) ==
    [i \in DOMAIN tree |->
        TocEntry(tree[i].depth + 1,
                 IF tree[i].title = "" THEN "Abschnitt" ELSE tree[i].title,
                 tree[i].href, tree[i].has_valid_content, tree[i].division_id)]

\* li.find('a', href=True): the first link in the item, its own or one of its
\* nested list; <<>> when it has none
RECURSIVE FirstLink(_)
FirstLink(lis) ==
    IF lis = <<>> THEN <<>>
    ELSE LET li == Head(lis)
             inside == IF li.own THEN <<[label |-> li.label, href |-> li.href]>>
                       ELSE FirstLink(li.sub)
         IN  IF inside # <<>> THEN inside ELSE FirstLink(Tail(lis))

\* lines 802-820
RECURSIVE walk_list(_, _)
walk_list(list_tag, level) ==
    IF list_tag = <<>> THEN <<>>
    ELSE LET li == Head(list_tag)
             a_tag == FirstLink(<<li>>)
         IN  (IF a_tag # <<>>
              THEN <<TocEntry(level, a_tag[1].label, a_tag[1].href, TRUE, 0)>>
              ELSE <<>>)
             \o walk_list(li.sub, level + 1)
             \o walk_list(Tail(list_tag), level)

\* range(1, 201)
PROBE_LAST == 200

\* the page a GET of division n returns: the page itself, or the site's error page
NotFoundPage ==
    [status |-> "notfound", heading |-> "", body |-> <<Block("p", <<Txt("text")>>)>>,
     footnotes |-> <<>>]

PageAt(st, n) == IF n \in DOMAIN st.pages THEN st.pages[n] ELSE NotFoundPage

\* mutant: a short response is skipped and probing goes on
RECURSIVE ProbeFrom_skip(_, _, _)
ProbeFrom_skip(st, err, index) ==
    IF index > PROBE_LAST THEN <<>>
    ELSE IF index = err THEN <<>>
    ELSE IF PageAt(st, index).status = "notfound" THEN <<>>
    ELSE IF PageAt(st, index).status = "short" THEN ProbeFrom_skip(st, err, index + 1)
    ELSE <<TocEntry(1, "Division " \o ToString(index), index, TRUE, index)>>
         \o ProbeFrom_skip(st, err, index + 1)

\* lines 826-847 from index on: err is the index at which httpx.get raises (0: never)
RECURSIVE ProbeFrom(_, _, _)
ProbeFrom(st, err, index) ==
    IF index > PROBE_LAST THEN <<>>
    ELSE IF index = err THEN <<>>
    ELSE IF PageAt(st, index).status = "notfound" THEN <<>>
    ELSE IF PageAt(st, index).status = "short" THEN <<>>
    ELSE <<TocEntry(1, "Division " \o ToString(index), index, TRUE, index)>>
         \o ProbeFrom(st, err, index + 1)

\* mutant: the nested list is read before the descriptor
toc_source_list_first(st) ==
    IF walk_list(st.list, 1) # <<>> THEN "list"
    ELSE IF TreeEntries(st.tree) # <<>> THEN "tree"
    ELSE "probe"

\* lines 757-825: the source parse_toc returns entries from: the descriptor if it
\* gives an entry (line 788), else the nested list if it gives one (line 822),
\* else the synthetic division URLs
toc_source(st) ==
    IF TreeEntries(st.tree) # <<>> THEN "tree"
    ELSE IF walk_list(st.list, 1) # <<>> THEN "list"
    ELSE "probe"

parse_toc(st, err) ==
    CASE toc_source(st) = "tree" -> TreeEntries(st.tree)
      [] toc_source(st) = "list" -> walk_list(st.list, 1)
      [] OTHER                   -> ProbeFrom(st, err, 1)

\* lines 826-838: the requests parse_toc sends: one for each entry it makes and
\* one for the probe that ends the loop, none beyond the last index
probes_sent(st, err) ==
    IF toc_source(st) # "probe" THEN 0
    ELSE Min(Len(ProbeFrom(st, err, 1)) + 1, PROBE_LAST)

(***************************************************************************)
(* Identity.                                                               *)
(***************************************************************************)
\* slugify(name, lowercase=True): transliterated, lower case, hyphens for spaces
slugify_name(name) ==
    CASE name = "Augustinus"     -> "augustinus"
      [] name = "Unbekannt"      -> "unbekannt"
      [] name = "Bekenntnisse"   -> "bekenntnisse"
      [] name = "Confessiones"   -> "confessiones"
      [] name = "De Trinitate"   -> "de-trinitate"
      [] name = "De  trinitate!" -> "de-trinitate"
      [] OTHER                   -> name

\* slugify_name(f"{author_slug}-{work_title}-de"): the author slug is a slug already
work_slug_of(author_slug, work_title) ==
    author_slug \o "-" \o slugify_name(work_title) \o "-de"

\* generate_uuid(): the n-th identifier drawn; no two draws give the same one
generate_uuid(n) == "u" \o ToString(n)

\* mutant: a drawn identifier where a derived one is due
uuid5_drawn(namespace, slug) == generate_uuid(uuid_count)

\* uuid.uuid5(namespace, slug): a function of the namespace and the slug
uuid5(namespace, slug) == namespace \o ":" \o slug

UUID_NAMESPACE_AUTHORS == "11111111"
UUID_NAMESPACE_WORKS == "22222222"

(***************************************************************************)
(* The store: one set of rows per table.  An upsert with a conflict target *)
(* replaces the rows that agree with a row of the batch on the target and  *)
(* inserts the others.                                                     *)
(***************************************************************************)
Tables == <<"authors", "works", "sections", "passages", "verses", "notes",
            "note_links", "assets">>

\* the conflict_cols of process_version's upserts, lines 1305-1313
ConflictKey(table, r) ==
    CASE table = "authors"    -> <<r.slug>>
      [] table = "works"      -> <<r.work_slug>>
      [] table = "sections"   -> <<r.work_id, r.level, r.label, r.order_index>>
      [] table = "passages"   -> <<r.section_id, r.order_index>>
      [] table = "verses"     -> <<r.passage_id, r.line_no>>
      [] table = "notes"      -> <<r.work_id, r.note_key>>
      [] table = "note_links" -> <<r.work_id, r.note_id, r.origin_passage_id,
                                   r.origin_html_anchor>>
      [] table = "assets"     -> <<r.work_id, r.order_index>>

\* Database.upsert: nothing is sent for an empty batch
upsert(rows, table, batch) ==
    IF batch = <<>> THEN rows
    ELSE {r \in rows : \A i \in DOMAIN batch :
                           ConflictKey(table, r) # ConflictKey(table, batch[i])}
         \cup Range(batch)

(***************************************************************************)
(* process_version: the loop over the table of contents.                   *)
(***************************************************************************)
None == ""

\* mutant: entries of the same level stay on the stack
RECURSIVE PopStack_strict(_, _)
PopStack_strict(stack, level) ==
    IF stack # <<>> /\ stack[Len(stack)].level > level
    THEN PopStack_strict(SubSeq(stack, 1, Len(stack) - 1), level)
    ELSE stack

\* lines 1151-1152: while section_stack and section_stack[-1][0] >= level: pop
RECURSIVE PopStack(_, _)
PopStack(stack, level) ==
    IF stack # <<>> /\ stack[Len(stack)].level >= level
    THEN PopStack(SubSeq(stack, 1, Len(stack) - 1), level)
    ELSE stack

\* lines 1226-1233
division_key_of(entry, index) ==
    IF entry.division_id # 0 THEN ToString(entry.division_id)
    ELSE IF entry.url # 0 THEN ToString(entry.url)
    ELSE "sec" \o ToString(index)

\* lines 1235-1249: the footnote entries that get a new Note, in order
RECURSIVE NewNotes(_, _, _)
NewNotes(note_entries, division_key, known) ==
    IF note_entries = <<>> THEN <<>>
    ELSE LET composite_key == <<division_key, Head(note_entries).key>>
         IN  IF composite_key \in known
             THEN NewNotes(Tail(note_entries), division_key, known)
             ELSE <<Head(note_entries)>>
                  \o NewNotes(Tail(note_entries), division_key, known \cup {composite_key})

\* mutant: an anchor is identified by its key alone
AnchorId_key(cand) == <<cand.text, 0>>

\* line 1275: anchor_id = (anchor_text, id(marker))
AnchorId(cand) == <<cand.text, cand.marker>>

\* lines 1269-1287: the candidates that get a NoteLink, in order
RECURSIVE LinkTargets(_, _, _, _)
LinkTargets(cands, lookup, division_key, seen_targets) ==
    IF cands = <<>> THEN <<>>
    ELSE LET cand == Head(cands)
             composite_key == <<division_key, cand.text>>
         IN  IF composite_key \notin DOMAIN lookup
                 THEN LinkTargets(Tail(cands), lookup, division_key, seen_targets)
             ELSE IF AnchorId(cand) \in seen_targets
                 THEN LinkTargets(Tail(cands), lookup, division_key, seen_targets)
             ELSE <<[text |-> cand.text, snippet |-> cand.snippet,
                     note_id |-> lookup[composite_key]]>>
                  \o LinkTargets(Tail(cands), lookup, division_key,
                                 seen_targets \cup {AnchorId(cand)})

\* mutant: the order index is the depth of the section stack
SectionOf_depth(entry, index, section_id) ==
    LET stack == PopStack(section_stack, entry.level)
    IN  [id |-> section_id,
         work_id |-> work.id,
         parent_id |-> IF stack # <<>> THEN stack[Len(stack)].id ELSE None,
         level |-> entry.level,
         label |-> entry.label,
         title |-> None,
         order_index |-> Len(stack) + 1]

\* lines 1149-1162: the Section of entry number index and the stack after it
SectionOf(entry, index, section_id) ==
    LET stack == PopStack(section_stack, entry.level)
    IN  [id |-> section_id,
         work_id |-> work.id,
         parent_id |-> IF stack # <<>> THEN stack[Len(stack)].id ELSE None,
         level |-> entry.level,
         label |-> entry.label,
         title |-> None,
         order_index |-> index]

\* mutant: the stack holds the last Section only
StackAfter_top(entry, section_id) == <<[level |-> entry.level, id |-> section_id]>>

\* lines 1151-1152 and 1161
StackAfter(entry, section_id) ==
    Append(PopStack(section_stack, entry.level), [level |-> entry.level, id |-> section_id])

(***************************************************************************)
(* process_version: steps.                                                 *)
(***************************************************************************)
\* the k-th identifier drawn in the current step
Draw(k) == generate_uuid(uuid_count + k)

\* what a finished processing leaves in history: how it ended, its qa_row, and
\* the identifiers and note links it built
Outcome(status, qa_row, built) == [status |-> status, qa_row |-> qa_row, built |-> built]

NoRow == [work_slug |-> None]

\* line 1107: author_display = author_name or 'Unbekannt'
author_display_of(author_name) == IF author_name # "" THEN author_name ELSE "Unbekannt"

\* line 1109: work_title = trans_title or orig_title or 'Unbekannt'
work_title_of(trans_title, orig_title) ==
    IF trans_title # "" THEN trans_title
    ELSE IF orig_title # "" THEN orig_title
    ELSE "Unbekannt"

\* how an awaited fetch ends: with a page, with the httpx.HTTPError that
\* HttpClient.fetch re-raises after its last attempt, or with the
\* asyncio.CancelledError that a cancellation of the run raises at the await
FetchResults == {"ok", "HTTPError", "CancelledError"}

\* mutant: the handler catches whatever is raised
IsException_any(exc) == TRUE

\* `except Exception`: the exceptions the clause catches; asyncio.CancelledError and
\* KeyboardInterrupt derive from BaseException only
IsException(exc) == exc \in {"HTTPError", "RetryError", "APIError", "Exception"}

\* lines 1095-1143: the version page is fetched and parsed.  A failed fetch raises
\* out of process_version (main logs it, line 1449); an empty table of contents
\* returns None; a cancellation ends the run.
PV_Start ==
    /\ pc = "start"
    /\ \E result \in FetchResults, err \in 0..(MaxDivs + 1) :
        LET ok == result = "ok"
            probing == TreeEntries(site.tree) = <<>> /\ walk_list(site.list, 1) = <<>>
            toc == parse_toc(site, err)
            author_display == author_display_of(site.author)
            author_slug == slugify_name(author_display)
            work_title == work_title_of(site.title, site.orig_title)
            work_slug == work_slug_of(author_slug, work_title)
            author_id == uuid5(UUID_NAMESPACE_AUTHORS, author_slug)
            work_id == uuid5(UUID_NAMESPACE_WORKS, work_slug)
            failed == (IF result = "HTTPError" THEN 1 ELSE 0) + (IF err # 0 THEN 1 ELSE 0)
        IN  /\ err # 0 => ok /\ probing /\ err <= Len(ProbeFrom(site, 0, 1)) + 1
            /\ probe_error' = err
            /\ failures + failed <= MaxFailures
            /\ failures' = failures + failed
            /\ result = "CancelledError" => cancelled = None
            /\ cancelled' = IF result = "CancelledError" THEN "version page" ELSE cancelled
            /\ probes' = IF ok THEN probes_sent(site, err) ELSE 0
            /\ IF ~ok /\ ~IsException(result)
               THEN /\ pc' = "cancelled"
                    /\ UNCHANGED <<history, locals>>
               ELSE IF ~ok
               THEN /\ pc' = "done"
                    /\ history' = Append(history, Outcome("raised", NoRow, NoRow))
                    /\ UNCHANGED locals
               ELSE IF toc = <<>>
               THEN /\ pc' = "done"
                    /\ history' = Append(history, Outcome("no-toc", NoRow, NoRow))
                    /\ UNCHANGED locals
               ELSE /\ pc' = "loop"
                    /\ toc_entries' = toc
                    /\ author' = [id |-> author_id, name |-> author_display,
                                  slug |-> author_slug]
                    /\ work' = [id |-> work_id, author_id |-> author_id,
                                title |-> work_title, title_original |-> site.orig_title,
                                language |-> "de", work_slug |-> work_slug,
                                summary |-> None]
                    /\ sections' = <<>> /\ passages' = <<>> /\ verses' = <<>>
                    /\ notes_lookup' = <<>> /\ notes_list' = <<>> /\ note_links' = <<>>
                    /\ assets' = <<>> /\ section_stack' = <<>>
                    /\ section_profiles' = <<>>
                    /\ UNCHANGED history
    /\ idx' = 1
    /\ UNCHANGED <<site, max_sections, run, uuid_count, store, skipped, store0,
                   dbvars, elsewhere>>

\* mutant: the loop also ends once a division fetch has failed
LoopEnded_abort ==
    idx > Len(toc_entries) \/ (max_sections # 0 /\ idx > max_sections) \/ skipped # {}

\* line 1146: if max_sections and idx > max_sections: break
LoopEnded == idx > Len(toc_entries) \/ (max_sections # 0 /\ idx > max_sections)

\* lines 1178-1182 and 1209-1224: the lines of the unit, verse lines or prose lines
UnitLines(verse_lines, html) ==
    IF verse_lines.found
    THEN [i \in DOMAIN verse_lines.lines |->
             [text |-> verse_lines.lines[i].text, indent |-> verse_lines.lines[i].indent,
              is_heading |-> FALSE]]
    ELSE LET prose_lines == extract_text_lines(html)
         IN  IF prose_lines # <<>> THEN merge_enumeration_lines(prose_lines) ELSE <<>>

\* lines 1184-1186: the role of the unit and the reasons for it
UnitRole(entry, page, ex, contains_verse) ==
    LET total_sections == Len(toc_entries)
        pre == classify_section_role_pre_content(entry.label, page.heading, entry.level,
                                                 idx, total_sections)
    IN  refine_section_role_post_content(pre.role, pre.reasons, ex.words, contains_verse,
            Len(ex.notes), entry.level, idx, total_sections, entry.label, page.heading)

\* lines 1235-1249: notes_lookup once the new notes are in it; the j-th new note
\* has the identifier drawn after `before` earlier draws
UnitLookup(new, division_key, before) ==
    LET new_keys == {<<division_key, new[j].key>> : j \in DOMAIN new}
    IN  [k \in DOMAIN notes_lookup \cup new_keys |->
            IF k \in DOMAIN notes_lookup THEN notes_lookup[k]
            ELSE Draw(before + CHOOSE j \in DOMAIN new : <<division_key, new[j].key>> = k)]

\* lines 1188-1292: the rows a unit adds, from what was extracted from its page; the
\* identifiers are drawn in the order of the code: the passage, its lines, the new
\* notes, the links, the assets
UnitRows(entry, section_id, page, ex, verse_lines, lines, division_key, new, lookup, targets, found) ==
    LET passage_id == Draw(2)
        nv == Len(lines)
        nn == Len(new)
        nl == Len(targets)
        post == UnitRole(entry, page, ex, verse_lines.found)
    IN  [title |-> page.heading,
         profile |-> [section_id |-> section_id, label |-> entry.label,
                      level |-> entry.level, order_index |-> idx, role |-> post.role,
                      role_reason |-> post.reasons, has_notes |-> ex.notes # <<>>,
                      contains_verse_lines |-> verse_lines.found],
         passage |-> [id |-> passage_id, section_id |-> section_id, order_index |-> 1,
                      html |-> ex.html, words |-> ex.words,
                      contains_verse_lines |-> verse_lines.found],
         verses |-> [i \in 1..nv |->
                        [id |-> Draw(2 + i), passage_id |-> passage_id, line_no |-> i,
                         text |-> lines[i].text, indent_level |-> lines[i].indent,
                         is_heading |-> lines[i].is_heading]],
         notes |-> [j \in 1..nn |->
                       [id |-> Draw(2 + nv + j), work_id |-> work.id,
                        note_key |-> division_key \o ":" \o new[j].key,
                        note_type |-> "footnote", plain_text |-> new[j].text,
                        order_index |-> Len(notes_list) + j]],
         lookup |-> lookup,
         links |-> [j \in 1..nl |->
                       [id |-> Draw(2 + nv + nn + j), work_id |-> work.id,
                        note_id |-> targets[j].note_id,
                        origin_passage_id |-> passage_id,
                        origin_html_anchor |-> targets[j].text,
                        context_snippet |-> targets[j].snippet]],
         assets |-> [j \in DOMAIN found |->
                        [id |-> Draw(2 + nv + nn + nl + j), work_id |-> work.id,
                         kind |-> found[j].kind,
                         order_index |-> Len(assets) + j]],
         drawn |-> 2 + nv + nn + nl + Len(found)]

\* lines 1173-1292: what a fetched division page adds to the collections; each
\* step of the extraction is handed what the steps before it produced
Unit(entry, section_id, page) ==
    LET Linked(ex, verse_lines, lines, division_key, new, lookup) ==
            UnitRows(entry, section_id, page, ex, verse_lines, lines, division_key, new,
                     lookup,
                     LinkTargets(anchor_candidates(ex.html), lookup, division_key, {}),
                     extract_assets(ex.html))
        Noted(ex, verse_lines, lines, division_key, new) ==
            Linked(ex, verse_lines, lines, division_key, new,
                   UnitLookup(new, division_key, 2 + Len(lines)))
        Read(ex, verse_lines, division_key) ==
            Noted(ex, verse_lines, UnitLines(verse_lines, ex.html), division_key,
                  NewNotes(ex.notes, division_key, DOMAIN notes_lookup))
        Extracted(ex) == Read(ex, detect_verses(ex.html), division_key_of(entry, idx))
    IN  Extracted(extract_main_and_notes(page))

\* mutant: an entry with a URL is fetched whatever has_content says
SkipsFetch_url(entry) == entry.url = 0

\* line 1163: if not entry.has_content or not entry.url: continue
SkipsFetch(entry) == ~entry.has_content \/ entry.url = 0

\* lines 1145-1292: one turn of the loop over the table of contents.  The Section
\* is appended before the division page is fetched (line 1160); an exception of
\* the fetch that `except Exception` catches is logged and the loop continues
\* (lines 1166-1170); any other leaves process_version and main.
PV_Entry ==
    /\ pc = "loop"
    /\ ~LoopEnded
    /\ LET entry == toc_entries[idx]
           section_id == Draw(1)
           section == SectionOf(entry, idx, section_id)
       IN  /\ section_stack' = StackAfter(entry, section_id)
           /\ IF SkipsFetch(entry)
              THEN /\ sections' = Append(sections, section)
                   /\ uuid_count' = uuid_count + 1
                   /\ idx' = idx + 1
                   /\ UNCHANGED <<passages, verses, notes_lookup, notes_list, note_links,
                                  assets, section_profiles, failures, pc, skipped,
                                  cancelled>>
              ELSE \E result \in FetchResults :
                   /\ result = "HTTPError" => failures < MaxFailures
                   /\ result = "CancelledError" => cancelled = None
                   /\ cancelled' = IF result = "CancelledError" THEN "division page"
                                   ELSE cancelled
                   /\ failures' = failures + (IF result = "HTTPError" THEN 1 ELSE 0)
                   /\ IF result # "ok"
                      THEN /\ sections' = Append(sections, section)
                           /\ uuid_count' = uuid_count + 1
                           /\ IF IsException(result)
                              THEN /\ idx' = idx + 1
                                   /\ skipped' = skipped \cup {idx}
                                   /\ UNCHANGED pc
                              ELSE /\ pc' = "cancelled"
                                   /\ UNCHANGED <<idx, skipped>>
                           /\ UNCHANGED <<passages, verses, notes_lookup, notes_list,
                                          note_links, assets, section_profiles>>
                      ELSE LET u == Unit(entry, section_id, PageAt(site, entry.url))
                           IN  /\ sections' = Append(sections,
                                                     [section EXCEPT !.title = u.title])
                               /\ section_profiles' = Append(section_profiles, u.profile)
                               /\ passages' = Append(passages, u.passage)
                               /\ verses' = verses \o u.verses
                               /\ notes_lookup' = u.lookup
                               /\ notes_list' = notes_list \o u.notes
                               /\ note_links' = note_links \o u.links
                               /\ assets' = assets \o u.assets
                               /\ uuid_count' = uuid_count + u.drawn
                               /\ idx' = idx + 1
                               /\ UNCHANGED <<pc, skipped>>
    /\ UNCHANGED <<site, max_sections, run, toc_entries, author, work,
                   probe_error, store, history, store0, probes, dbvars, elsewhere>>

\* mutant: every note is kept
prune_notes_all(notes, links) == notes

\* lines 1294-1298: only the notes some link refers to are kept
prune_notes(notes, links) ==
    IF links # <<>>
    THEN LET referenced_note_ids == {links[i].note_id : i \in DOMAIN links}
         IN  SelectSeq(notes, LAMBDA note : note.id \in referenced_note_ids)
    ELSE <<>>

CountRole(profiles, role) == Cardinality({i \in DOMAIN profiles : profiles[i].role = role})

\* counts.most_common(1)[0][0]: the most frequent role, the first met among equals
DominantRole(profiles) ==
    LET best == CHOOSE i \in DOMAIN profiles :
                    /\ \A j \in DOMAIN profiles :
                           CountRole(profiles, profiles[j].role)
                               <= CountRole(profiles, profiles[i].role)
                    /\ \A j \in 1..(i - 1) :
                           CountRole(profiles, profiles[j].role)
                               < CountRole(profiles, profiles[i].role)
    IN  profiles[best].role

build_structure_summary(profiles) ==
    IF profiles = <<>>
    THEN [counts |-> [r \in Roles |-> 0], has_introduction |-> FALSE,
          has_appendix |-> FALSE, has_commentary |-> FALSE, dominant_role |-> None,
          total_sections |-> 0]
    ELSE [counts |-> [r \in Roles |-> CountRole(profiles, r)],
          has_introduction |-> CountRole(profiles, "introduction") > 0
                               \/ CountRole(profiles, "preface") > 0,
          has_appendix |-> CountRole(profiles, "appendix") > 0,
          has_commentary |-> CountRole(profiles, "commentary") > 0
                             \/ CountRole(profiles, "notes") > 0,
          dominant_role |-> DominantRole(profiles),
          total_sections |-> Len(profiles)]

\* lines 1294-1302: the loop is over; notes are pruned and the summary is built
PV_Finish ==
    /\ pc = "loop"
    /\ LoopEnded
    /\ notes_list' = prune_notes(notes_list, note_links)
    /\ work' = [work EXCEPT !.summary = build_structure_summary(section_profiles)]
    /\ pc' = "upsert"
    /\ UNCHANGED <<site, max_sections, run, idx, toc_entries, author, sections, passages,
                   verses, notes_lookup, note_links, assets, section_stack,
                   section_profiles, uuid_count, failures, probe_error, store, history,
                   marks, dbvars, elsewhere>>

\* the rows of the n-th upsert, lines 1305-1313
Batch(n) ==
    CASE n = 1 -> <<author>>
      [] n = 2 -> <<work>>
      [] n = 3 -> sections
      [] n = 4 -> passages
      [] n = 5 -> verses
      [] n = 6 -> notes_list
      [] n = 7 -> note_links
      [] n = 8 -> assets

\* lines 1315-1332
QaRow ==
    [work_slug |-> work.work_slug,
     sections |-> Len(sections), passages |-> Len(passages),
     notes |-> Len(notes_list), verses |-> Len(verses),
     counts |-> work.summary.counts,
     dominant_role |-> work.summary.dominant_role,
     has_introduction |-> work.summary.has_introduction,
     has_appendix |-> work.summary.has_appendix,
     has_commentary |-> work.summary.has_commentary]

\* the identifiers and note links built, and the rows the store holds at the return
Built(rows) ==
    [author_id |-> author.id, work_id |-> work.id, note_links |-> Len(note_links),
     stored |-> [t \in DOMAIN rows |-> Cardinality(rows[t])]]

\* lines 1305-1313: the store after the upserts number n to last, in order; the
\* batch number lost is not applied by the store
RECURSIVE UpsertFrom(_, _, _, _)
UpsertFrom(rows, n, last, lost) ==
    IF n > last THEN rows
    ELSE UpsertFrom(IF n = lost THEN rows
                    ELSE [rows EXCEPT ![Tables[n]] = upsert(@, Tables[n], Batch(n))],
                    n + 1, last, lost)

\* how the call of execute() for a batch ends (line 597): the store applies the
\* rows, answers 409 (conflict) or another status without applying them, the
\* client raises, or the run is cancelled while the call is awaited (line 593)
UpsertResults == {"applied", "conflict", "rejected", "APIError", "CancelledError"}

\* the status of the response, 0 if there is none
StatusOf(result) ==
    CASE result = "applied"  -> 201
      [] result = "conflict" -> 409
      [] result = "rejected" -> 400
      [] OTHER               -> 0

\* lines 605-609: a warning is logged for a status not in (200, 201, 204, 409)
Warned(result) == StatusOf(result) # 0 /\ StatusOf(result) \notin {200, 201, 204, 409}

\* lines 584-609: the batches number n to last that are sent (an empty batch is
\* not, line 589), each once, and how each ended
RECURSIVE LogFrom(_, _, _, _)
LogFrom(n, last, bad, result) ==
    IF n > last THEN <<>>
    ELSE (IF Batch(n) = <<>> THEN <<>>
          ELSE <<[table |-> Tables[n],
                  result |-> IF n = bad THEN result ELSE "applied",
                  warned |-> n = bad /\ Warned(result)]>>)
         \o LogFrom(n + 1, last, bad, result)

\* lines 1304-1332: the eight upserts, then the qa_row is returned.  At most one
\* batch of a processing ends otherwise than applied; what execute() raises leaves
\* process_version at that upsert; the batch that was awaited when the run was
\* cancelled is still sent by its thread and may have landed.
PV_Upsert ==
    /\ pc = "upsert"
    /\ \E bad \in 0..Len(Tables), result \in UpsertResults, landed \in BOOLEAN :
        LET left == bad # 0 /\ result \in {"APIError", "CancelledError"}
            last == IF left THEN bad ELSE Len(Tables)
            lost == IF landed THEN 0 ELSE bad
        IN  /\ bad = 0 => result = "applied" /\ landed
            /\ bad # 0 => /\ db_faulty
                          /\ result # "applied"
                          /\ Batch(bad) # <<>>
                          /\ result # "CancelledError" => failures < MaxFailures /\ ~landed
                          /\ result = "CancelledError" => cancelled = None
            /\ store' = UpsertFrom(store, 1, last, lost)
            /\ upsert_log' = LogFrom(1, last, bad, result)
            /\ failures' = failures + (IF bad # 0 /\ result # "CancelledError" THEN 1 ELSE 0)
            /\ cancelled' = IF left /\ result = "CancelledError" THEN "upsert" ELSE cancelled
            /\ IF ~left
               THEN /\ pc' = "done"
                    /\ history' = Append(history, Outcome("ok", QaRow, Built(store')))
               ELSE IF IsException(result)
               THEN /\ pc' = "done"
                    /\ history' = Append(history, Outcome("raised", NoRow, NoRow))
               ELSE /\ pc' = "cancelled"
                    /\ UNCHANGED history
    /\ UNCHANGED <<site, max_sections, run, idx, locals, uuid_count, probe_error,
                   skipped, store0, probes, db_faulty, elsewhere>>

NoAuthor == [id |-> None, name |-> None, slug |-> None]
NoWork == [id |-> None, author_id |-> None, title |-> None, title_original |-> None,
           language |-> None, work_slug |-> None, summary |-> None]

\* the scraper is run again on the same version (main, lines 1443-1446)
Rerun ==
    /\ pc = "done"
    /\ run < MaxRuns
    /\ run' = run + 1
    /\ pc' = "start"
    /\ idx' = 1
    /\ toc_entries' = <<>> /\ author' = NoAuthor /\ work' = NoWork
    /\ sections' = <<>> /\ passages' = <<>> /\ verses' = <<>>
    /\ notes_lookup' = <<>> /\ notes_list' = <<>> /\ note_links' = <<>>
    /\ assets' = <<>> /\ section_stack' = <<>> /\ section_profiles' = <<>>
    /\ probe_error' = 0
    /\ skipped' = {}
    /\ store0' = store
    /\ probes' = 0
    /\ upsert_log' = <<>>
    /\ UNCHANGED <<site, max_sections, uuid_count, failures, store, history, cancelled,
                   db_faulty, elsewhere>>

(***************************************************************************)
(* The sites the model reads: families that each vary one part of a site.  *)
(***************************************************************************)
PageOf(body, footnotes) ==
    [status |-> "ok", heading |-> "", body |-> body, footnotes |-> footnotes]

ShortPage == PageOf(<<Block("p", <<Txt("text")>>)>>, <<>>)
LongPage == PageOf(<<Block("p", <<Txt("long text")>>)>>, <<>>)
VersePage ==
    PageOf(<<Block("p", <<Txt("text"), Br, Txt(""), Txt("text"), Br, Txt("text"), Br,
                           Txt("text")>>)>>, <<>>)
NotesPage ==
    PageOf(<<Block("p", <<Txt("text"), Sup("1"), Img>>)>>, <<Fn("fn:1", "1 note")>>)
HeadedPage == [ShortPage EXCEPT !.heading = "Vorwort"]

SiteOf(tree, list, pages) ==
    [author |-> "Augustinus", title |-> "Bekenntnisse", orig_title |-> "Confessiones",
     tree |-> tree, list |-> list, pages |-> pages]

Leaf(label, href) == [label |-> label, href |-> href, own |-> TRUE, sub |-> <<>>]

OnePage(page) == SiteOf(<<>>, <<Leaf("Text", 1)>>, <<page>>)

\* descriptors of every depth sequence
TreeNode(depth, i) ==
    [depth |-> depth, title |-> "Text", href |-> i, has_valid_content |-> TRUE,
     division_id |-> i]

TocSites ==
    {SiteOf([i \in DOMAIN depths |-> TreeNode(depths[i], i)], <<>>,
            [i \in DOMAIN depths |-> ShortPage]) :
        depths \in SeqsUpTo(0..MaxDepth, MaxToc) \ {<<>>}}

\* descriptors with nodes that have no content, no link, no title, or no
\* division_id, and nested lists with items that have no link of their own
OddTocSites ==
    {SiteOf(<<TreeNode(0, 1), [TreeNode(1, 2) EXCEPT !.has_valid_content = FALSE],
              [TreeNode(1, 1) EXCEPT !.href = 0], [TreeNode(0, 2) EXCEPT !.title = ""],
              [TreeNode(2, 1) EXCEPT !.division_id = 0]>>,
            <<>>, <<NotesPage, HeadedPage>>),
     SiteOf(<<>>,
            <<[label |-> "", href |-> 0, own |-> FALSE,
               sub |-> <<Leaf("Kapitel 1", 1), Leaf("Text", 2)>>],
              Leaf("Anhang", 3)>>,
            <<ShortPage, VersePage, NotesPage>>),
     SiteOf(<<>>,
            <<[label |-> "Buch II", href |-> 1, own |-> TRUE,
               sub |-> <<[label |-> "", href |-> 0, own |-> FALSE, sub |-> <<>>],
                         Leaf("Kapitel 1", 2)>>]>>,
            <<LongPage, NotesPage>>),
     SiteOf(<<>>, <<[label |-> "", href |-> 0, own |-> FALSE, sub |-> <<>>]>>,
            <<ShortPage>>)}

\* version pages with both a descriptor and a nested list; the division pages
\* are there for a probe to find
BothTocSites ==
    {SiteOf(<<TreeNode(0, 2)>>, <<Leaf("Kapitel 1", 1), Leaf("Anhang", 2)>>,
            <<ShortPage, LongPage>>),
     SiteOf(<<TreeNode(0, 1), TreeNode(1, 2)>>, <<Leaf("Kapitel 1", 2)>>,
            <<LongPage, ShortPage>>)}

\* bodies of one block: lines separated by <br> tags and newlines
MaxLines == 4
LineKinds == {<<>>, <<Txt("text")>>}

LinesBody(tag, contents, seps) ==
    <<Block(tag, Flatten([i \in DOMAIN contents |->
                             contents[i] \o (IF i < Len(contents) THEN <<seps[i]>>
                                             ELSE <<>>)]))>>

VerseSites ==
    {OnePage(PageOf(LinesBody("p", contents, seps), <<>>)) :
        <<contents, seps>> \in
            UNION {[1..k -> LineKinds] \X [1..(k - 1) -> {Br, Nl}] : k \in 1..MaxLines}}

\* four lines divided by three <br> tags: lines of text, indented lines, and lines
\* that are a printed page marker only
MarkerSites ==
    {OnePage(PageOf(LinesBody(tag, contents, [i \in 1..3 |-> Br]), <<>>)) :
        tag \in {"p", "div"},
        contents \in [1..4 -> {<<Txt("text")>>, <<Txt(""), Txt("text")>>,
                               <<Txt("S. 12")>>}]}

\* bodies of several blocks of one item each
MaxBlocks == 2
BlockSites ==
    {OnePage(PageOf(body, <<>>)) :
        body \in SeqsUpTo({Block(tag, <<item>>) :
                              tag \in {"p", "li", "h4", "div"},
                              item \in {Txt("text"), Txt("1.")}}
                          \cup {Block("p", <<Txt("")>>)},
                          MaxBlocks)}

\* bodies with footnote anchors, and footnote lists
MaxAnchors == 2
AnchorKinds == {Sup("1"), Ref("1", "#fn:1"), SupRef("", "#fn-2"), Ref("2", "fn-2"),
                Ref("", "")}
FootnoteLists ==
    {<<>>, <<Fn("fn:1", "1 note")>>, <<Fn("fn:1", "1 note"), Fn("", "2 note")>>,
     <<Fn("", "2 note"), Fn("fn:3", "3 note"), Fn("fn-2", "2 note")>>}

NoteSites ==
    {OnePage(PageOf(<<Block("p", <<Txt("text")>> \o anchors)>>, footnotes)) :
        anchors \in SeqsUpTo(AnchorKinds, MaxAnchors), footnotes \in FootnoteLists}

\* two units with the same footnote keys: on different pages, on the same page
\* listed twice, and with the same division_id
ScopeSites ==
    {SiteOf(<<>>, <<Leaf("Kapitel 1", 1), Leaf("Text", 2)>>, <<NotesPage, NotesPage>>),
     SiteOf(<<>>, <<Leaf("Kapitel 1", 1), Leaf("Text", 1)>>, <<NotesPage>>),
     SiteOf(<<TreeNode(0, 1), [TreeNode(0, 2) EXCEPT !.division_id = 1]>>, <<>>,
            <<NotesPage, NotesPage>>)}

\* sites without a table of contents: divisions that answer, with pages that are
\* too short or not found among the last two only
ProbeSites ==
    {SiteOf(<<>>, <<>>, [i \in DOMAIN statuses |->
                            [ShortPage EXCEPT !.status = statuses[i]]]) :
        statuses \in {s \in SeqsUpTo({"ok", "short", "notfound"}, MaxDivs) :
                         \A i \in DOMAIN s : s[i] # "ok" => i >= Len(s) - 1}}

\* three top-level units with labels of several vocabularies
RoleSites ==
    {SiteOf(<<>>, <<Leaf(first, 1), Leaf(middle, 2), Leaf(last, 3)>>, pages) :
        first \in {"Vorwort", "Einleitung", "Praefatio", "Text"},
        middle \in {"Kapitel 1", "Text"},
        last \in {"Anhang", "Text"},
        pages \in {<<p, LongPage, q>> :
                      p \in {ShortPage, LongPage, VersePage, NotesPage},
                      q \in {ShortPage, LongPage, NotesPage}}}

\* author names and titles
MetaSites ==
    {[OnePage(ShortPage) EXCEPT !.author = a, !.title = t, !.orig_title = o] :
        a \in {"Augustinus", ""},
        t \in {"Bekenntnisse", "De Trinitate", "De  trinitate!", ""},
        o \in {"Confessiones", ""}}

Sites == TocSites \cup OddTocSites \cup BothTocSites \cup VerseSites \cup MarkerSites \cup BlockSites
         \cup NoteSites \cup ScopeSites \cup ProbeSites \cup RoleSites \cup MetaSites

EmptyStore == [t \in Range(Tables) |-> {}]

\* main is not part of the behaviours that follow one version through
\* process_version: its variables stay as they are
MainIdle ==
    /\ version_urls = <<>>
    /\ resume_from = None
    /\ skip = FALSE
    /\ vpos = 1
    /\ attempted = <<>>
    /\ qa_rows = <<>>
    /\ qa_csv = <<>>
    /\ mpc = "loop"

\* what a GET can end with: an exception of the transport (ConnectError and
\* ReadTimeout derive from httpx.HTTPError) or a response with a status
Raises(exc) == [exc |-> exc, status_code |-> 0]
Response(status_code) == [exc |-> None, status_code |-> status_code]
NoResult == [exc |-> None, status_code |-> 0]

\* no unit is in the classifier: a unit without a label, not yet classified
NoRole == [role |-> None, reasons |-> <<>>]

RoleIdle ==
    /\ unit = [label |-> "", heading |-> "", level |-> 1, order_index |-> 1,
               total_sections |-> 0, word_count |-> 0, contains_verses |-> FALSE,
               note_count |-> 0]
    /\ pre_result = NoRole /\ post_result = NoRole /\ rpc = "input"

\* discovery is not followed: there is no works list
DiscoverIdle ==
    /\ index_pages = <<>> /\ args_max_works = 0 /\ next_url = 0
    /\ visited_pages = {} /\ discovered = <<>> /\ fetched = <<>> /\ dpc = "loop"

\* the requests are followed in behaviours of their own: here the clock stands
HttpIdle ==
    /\ now = 0 /\ min_interval = 1 /\ last_request_ts = 0
    /\ hpc = "idle" /\ attempt = 0 /\ last_result = NoResult /\ call_result = None
    /\ retried_other = FALSE /\ requests = 0 /\ last_sent = 0 /\ gap = -1

Init ==
    /\ site \in Sites
    /\ max_sections \in 0..MaxToc
    /\ (max_sections # 0 => site \in TocSites)
    /\ run = 1
    /\ pc = "start"
    /\ idx = 1
    /\ toc_entries = <<>> /\ author = NoAuthor /\ work = NoWork
    /\ sections = <<>> /\ passages = <<>> /\ verses = <<>>
    /\ notes_lookup = <<>> /\ notes_list = <<>> /\ note_links = <<>>
    /\ assets = <<>> /\ section_stack = <<>> /\ section_profiles = <<>>
    /\ uuid_count = 0
    /\ failures = 0
    /\ probe_error = 0
    /\ store = EmptyStore
    /\ history = <<>>
    /\ skipped = {}
    /\ cancelled = None
    /\ store0 = EmptyStore
    /\ probes = 0
    /\ db_faulty = FALSE
    /\ upsert_log = <<>>
    /\ MainIdle
    /\ HttpIdle
    /\ RoleIdle
    /\ DiscoverIdle

\* the sites followed with a store that may fail: one division with notes, links
\* and an asset (every batch has rows), and one with text only
DbSites == {OnePage(NotesPage), OnePage(ShortPage)} \cup ScopeSites

\* as Init, with a store that may fail
DbInit ==
    /\ site \in DbSites
    /\ max_sections = 0
    /\ run = 1
    /\ pc = "start"
    /\ idx = 1
    /\ toc_entries = <<>> /\ author = NoAuthor /\ work = NoWork
    /\ sections = <<>> /\ passages = <<>> /\ verses = <<>>
    /\ notes_lookup = <<>> /\ notes_list = <<>> /\ note_links = <<>>
    /\ assets = <<>> /\ section_stack = <<>> /\ section_profiles = <<>>
    /\ uuid_count = 0
    /\ failures = 0
    /\ probe_error = 0
    /\ store = EmptyStore
    /\ history = <<>>
    /\ skipped = {}
    /\ cancelled = None
    /\ store0 = EmptyStore
    /\ probes = 0
    /\ db_faulty = TRUE
    /\ upsert_log = <<>>
    /\ MainIdle
    /\ HttpIdle
    /\ RoleIdle
    /\ DiscoverIdle

Next == PV_Start \/ PV_Entry \/ PV_Finish \/ PV_Upsert \/ Rerun

Spec == Init /\ [][Next]_vars

DbSpec == DbInit /\ [][Next]_vars

(***************************************************************************)
(* main: discovery, the resume option, the loop over the versions and the  *)
(* QA summary.  A URL is the sequence of parts that str.split('/') gives;  *)
(* a path is the parts after the host.  process_version is one step here:  *)
(* it ends in one of the ways the behaviours of Spec end, and builds the   *)
(* Work with the operators process_version uses.                           *)
(***************************************************************************)
MaxVersions == 2

Origin == <<"https:", "", "bkv.unifr.ch">>

\* the hrefs of the anchors of the works list
Hrefs ==
    {<<"de", "works", "cpl-251", "versions", "bekenntnisse", "divisions">>,
     <<"de", "works", "cpl-251", "versions", "bekenntnisse-2", "">>,
     <<"de", "works", "cpl-329", "versions", "de-trinitate", "divisions", "1">>,
     <<"en", "works", "cpl-329", "versions", "de-trinitate-2", "divisions", "">>,
     <<"works", "cpl-900", "versions", "bekenntnisse-anon", "divisions">>,
     <<"de", "works", "cpl-251", "versions", "confessiones", "divisions">>,
     <<"de", "works", "cpl-262", "versions", "ohne-titel", "divisions">>,
     <<"de", "works", "cpl-251">>}

\* what parse_author_and_title reads on the version page, by version slug
VersionMeta(slug) ==
    CASE slug = "bekenntnisse" ->
             [author |-> "Augustinus", title |-> "Bekenntnisse", orig_title |-> "Confessiones"]
      [] slug = "bekenntnisse-2" ->
             [author |-> "Augustinus", title |-> "Bekenntnisse", orig_title |-> ""]
      [] slug = "de-trinitate" ->
             [author |-> "Augustinus", title |-> "De Trinitate", orig_title |-> ""]
      [] slug = "de-trinitate-2" ->
             [author |-> "Augustinus", title |-> "De  trinitate!", orig_title |-> ""]
      [] slug = "confessiones" ->
             [author |-> "Augustinus", title |-> "", orig_title |-> "Confessiones"]
      [] slug = "ohne-titel" ->
             [author |-> "Augustinus", title |-> "", orig_title |-> ""]
      [] OTHER ->
             [author |-> "", title |-> "Bekenntnisse", orig_title |-> ""]

\* str.rstrip('/') before the split: no empty parts at the end
RECURSIVE RStrip(_)
RStrip(parts) ==
    IF parts # <<>> /\ parts[Len(parts)] = ""
    THEN RStrip(SubSeq(parts, 1, Len(parts) - 1))
    ELSE parts

\* \d+
IsDigits(part) == part \in {"1", "2", "12"}

\* lines 178-196
ensure_de_locale_url(path) ==
    IF path # <<>> /\ path[1] = "de" THEN path
    ELSE IF path # <<>> /\ path[1] \in {"en", "fr"} THEN <<"de">> \o Tail(path)
    ELSE <<"de">> \o path

\* line 217: re.sub(r'/divisions(?:/\d+)?/?$', '', url.path)
StripDivisions(path) ==
    LET n == Len(path)
        q == IF n > 0 /\ path[n] = "" THEN SubSeq(path, 1, n - 1) ELSE path
        m == Len(q)
    IN  IF m >= 1 /\ q[m] = "divisions" THEN SubSeq(q, 1, m - 1)
        ELSE IF m >= 2 /\ IsDigits(q[m]) /\ q[m - 1] = "divisions" THEN SubSeq(q, 1, m - 2)
        ELSE path

\* lines 198-220, for an href that starts with '/'; None for an empty href
normalise_version_url(raw_url) ==
    IF raw_url = <<>> THEN <<>>
    ELSE Origin \o StripDivisions(ensure_de_locale_url(raw_url))

\* line 1362: '/versions/' in version_url
HasVersionsPart(url) == \E i \in 1..(Len(url) - 1) : url[i] = "versions"

\* lines 1335-1385: the German anchors of the works list in page order, without
\* repetitions; only the first max_works of them if max_works is given
RECURSIVE DiscoverFrom(_, _, _, _)
DiscoverFrom(hrefs, max_works, i, found) ==
    IF i > Len(hrefs) \/ (max_works # 0 /\ Len(found) >= max_works) THEN found
    ELSE LET version_url == normalise_version_url(hrefs[i])
         IN  IF version_url = <<>> \/ ~HasVersionsPart(version_url)
                \/ version_url \in Range(found)
             THEN DiscoverFrom(hrefs, max_works, i + 1, found)
             ELSE DiscoverFrom(hrefs, max_works, i + 1, Append(found, version_url))

discover_versions(hrefs, max_works) == DiscoverFrom(hrefs, max_works, 1, <<>>)

\* line 1437: slug = version_url.rstrip('/').split('/')[-2]
resume_slug(version_url) ==
    LET parts == RStrip(version_url) IN parts[Len(parts) - 1]

\* how process_version ends in main: it returns a qa_row, returns None (no table
\* of contents), or raises: the httpx.HTTPError of the version page fetch, an
\* error of the database client during the upserts, or any other exception
Outcomes == {"row", "none", "HTTPError", "APIError", "Exception"}

\* mutant: main catches the RetryError only
Caught_retry_only(exc) == exc = "RetryError"

\* lines 1447-1450: except RetryError ... except Exception
Caught(exc) == exc = "RetryError" \/ IsException(exc)

\* mutant: the work slug is made of the title alone
WorkIdentity_title(meta) ==
    LET work_slug == slugify_name(work_title_of(meta.title, meta.orig_title)) \o "-de"
    IN  [work_slug |-> work_slug, id |-> uuid5(UUID_NAMESPACE_WORKS, work_slug)]

\* lines 1107-1115: the work_slug and the Work.id of a version
WorkIdentity(meta) ==
    LET author_slug == slugify_name(author_display_of(meta.author))
        work_slug == work_slug_of(author_slug, work_title_of(meta.title, meta.orig_title))
    IN  [work_slug |-> work_slug, id |-> uuid5(UUID_NAMESPACE_WORKS, work_slug)]

NoIdentity == [work_slug |-> None, id |-> None]

\* the version of a URL: the part after "versions"
VersionOf(version_url) ==
    LET i == CHOOSE k \in 1..(Len(version_url) - 1) : version_url[k] = "versions"
    IN  version_url[i + 1]

\* lines 1434-1442: a version before the resume slug is skipped
M_Skip ==
    /\ mpc = "loop"
    /\ vpos <= Len(version_urls)
    /\ skip
    /\ resume_slug(version_urls[vpos]) # resume_from
    /\ vpos' = vpos + 1
    /\ UNCHANGED <<version_urls, resume_from, skip, attempted, qa_rows, qa_csv, mpc>>
    /\ UNCHANGED <<procvars, httpvars, rolevars, discvars>>

\* lines 1434-1450: process_version is called for the version; what it raises is
\* logged if an except clause catches it, and the loop goes on
M_Process ==
    /\ mpc = "loop"
    /\ vpos <= Len(version_urls)
    /\ skip => resume_slug(version_urls[vpos]) = resume_from
    /\ skip' = FALSE
    /\ \E outcome \in Outcomes :
        LET built == IF outcome \in {"row", "APIError"}
                     THEN WorkIdentity(VersionMeta(VersionOf(version_urls[vpos])))
                     ELSE NoIdentity
        IN  /\ attempted' = Append(attempted, [v |-> vpos, outcome |-> outcome,
                                                work |-> built])
            /\ qa_rows' = IF outcome = "row"
                          THEN Append(qa_rows, [work_slug |-> built.work_slug])
                          ELSE qa_rows
            /\ IF outcome \in {"row", "none"} \/ Caught(outcome)
               THEN vpos' = vpos + 1 /\ UNCHANGED mpc
               ELSE mpc' = "aborted" /\ UNCHANGED vpos
    /\ UNCHANGED <<version_urls, resume_from, qa_csv>>
    /\ UNCHANGED <<procvars, httpvars, rolevars, discvars>>

\* lines 1451-1457: after the loop the QA summary is written
M_WriteCsv ==
    /\ mpc = "loop"
    /\ vpos > Len(version_urls)
    /\ qa_csv' = qa_rows
    /\ mpc' = "written"
    /\ UNCHANGED <<version_urls, resume_from, skip, vpos, attempted, qa_rows>>
    /\ UNCHANGED <<procvars, httpvars, rolevars, discvars>>

\* no version is followed through process_version: its variables stay as they are
ProcessIdle ==
    /\ site = OnePage(ShortPage) /\ max_sections = 0 /\ run = 1 /\ pc = "main"
    /\ idx = 1
    /\ toc_entries = <<>> /\ author = NoAuthor /\ work = NoWork
    /\ sections = <<>> /\ passages = <<>> /\ verses = <<>>
    /\ notes_lookup = <<>> /\ notes_list = <<>> /\ note_links = <<>>
    /\ assets = <<>> /\ section_stack = <<>> /\ section_profiles = <<>>
    /\ uuid_count = 0 /\ failures = 0 /\ probe_error = 0
    /\ store = EmptyStore /\ history = <<>>
    /\ skipped = {} /\ cancelled = None /\ store0 = EmptyStore /\ probes = 0
    /\ db_faulty = FALSE /\ upsert_log = <<>>

\* the lists of distinct hrefs a works list of at most MaxVersions anchors has
AnchorLists ==
    {hrefs \in SeqsUpTo(Hrefs, MaxVersions) :
        \A i, j \in DOMAIN hrefs : i # j => hrefs[i] # hrefs[j]}

\* the values of --resume-from: none, a version of the list, or another word
ResumeValues(urls) == {None, "versions"} \cup {VersionOf(urls[i]) : i \in DOMAIN urls}

\* lines 1412-1433: the arguments are parsed and discovery has returned; no
\* version is in process_version yet
MainInit ==
    /\ ProcessIdle
    /\ HttpIdle
    /\ RoleIdle
    /\ DiscoverIdle
    /\ \E hrefs \in AnchorLists : version_urls = discover_versions(hrefs, 0)
    /\ resume_from \in ResumeValues(version_urls)
    /\ skip = (resume_from # None)
    /\ vpos = 1
    /\ attempted = <<>>
    /\ qa_rows = <<>>
    /\ qa_csv = <<>>
    /\ mpc = "loop"

MainNext == M_Skip \/ M_Process \/ M_WriteCsv

MainSpec == MainInit /\ [][MainNext]_vars

\* main is one task: each await returns or raises, so the loop takes its next step
MainFair == MainSpec /\ WF_vars(MainNext)

(***************************************************************************)
(* HttpClient: the throttle, the attempts of fetch, and the requests that  *)
(* parse_toc sends with httpx.get.  Time is counted in ticks; a step that  *)
(* awaits may take a tick longer than it has to.                           *)
(***************************************************************************)
MaxInterval == 2
MaxRequests == 6
STOP_AFTER_ATTEMPT == 5

GetResults ==
    {Raises("ConnectError"), Raises("ReadTimeout"), Response(500), Response(503),
     Response(429), Response(200), Response(404)}

\* lines 550 and 561-562: retry_if_exception_type(httpx.HTTPError); a response with
\* status >= 500 or 429 is raised as httpx.HTTPError
IsTransient(result) ==
    result.exc # None \/ result.status_code >= 500 \/ result.status_code = 429

\* mutant: no limit on the attempts
ShouldStop_never(attempt_number) == FALSE

\* line 548: stop_after_attempt(5)
ShouldStop(attempt_number) == attempt_number >= STOP_AFTER_ATTEMPT

\* a request leaves at the time t
Sent(t) ==
    /\ requests' = requests + 1
    /\ last_sent' = t
    /\ gap' = IF requests = 0 THEN -1 ELSE t - last_sent

\* a caller (fetch_soup) awaits client.fetch(url)
H_Call ==
    /\ hpc = "idle"
    /\ requests < MaxRequests
    /\ \E busy \in 0..1 : now' = now + busy
    /\ hpc' = "throttle"
    /\ attempt' = 1
    /\ last_result' = NoResult
    /\ call_result' = None
    /\ UNCHANGED <<min_interval, last_request_ts, retried_other, requests, last_sent, gap>>
    /\ UNCHANGED <<procvars, mainvars, rolevars, discvars>>

\* lines 540-545 and 557-559: _throttle sleeps for the rest of the interval, the
\* time of the request is noted, and the GET is sent
H_Throttle ==
    /\ hpc = "throttle"
    /\ requests < MaxRequests
    /\ LET elapsed == now - last_request_ts
       IN  \E late \in 0..1 :
               now' = IF elapsed < min_interval
                      THEN now + (min_interval - elapsed) + late
                      ELSE now
    /\ last_request_ts' = now'
    /\ Sent(now')
    /\ hpc' = "get"
    /\ UNCHANGED <<min_interval, attempt, last_result, call_result, retried_other>>
    /\ UNCHANGED <<procvars, mainvars, rolevars, discvars>>

\* lines 559-563 and 547-550: the GET ends; a transient failure is raised and the
\* call waits for its next attempt unless this was the last; any other response
\* is returned
H_Response ==
    /\ hpc = "get"
    /\ \E result \in GetResults, took \in 0..1 :
        /\ now' = now + took
        /\ last_result' = result
        /\ IF IsTransient(result)
           THEN IF ShouldStop(attempt)
                THEN hpc' = "idle" /\ call_result' = "raised"
                ELSE hpc' = "wait" /\ call_result' = None
           ELSE hpc' = "idle" /\ call_result' = "returned"
        /\ retried_other' =
               (retried_other \/ (result \in {Response(200), Response(404)} /\ hpc' = "wait"))
    /\ UNCHANGED <<min_interval, last_request_ts, attempt, requests, last_sent, gap>>
    /\ UNCHANGED <<procvars, mainvars, rolevars, discvars>>

\* line 549: wait_exponential_jitter before the next attempt
H_Backoff ==
    /\ hpc = "wait"
    /\ \E waited \in 0..1 : now' = now + waited
    /\ attempt' = attempt + 1
    /\ hpc' = "throttle"
    /\ UNCHANGED <<min_interval, last_request_ts, last_result, call_result,
                   retried_other, requests, last_sent, gap>>
    /\ UNCHANGED <<procvars, mainvars, rolevars, discvars>>

\* lines 826-834: parse_toc sends the request of a synthetic division URL with
\* httpx.get, outside the client
H_Probe ==
    /\ hpc = "idle"
    /\ requests < MaxRequests
    /\ Sent(now)
    /\ \E took \in 0..1 : now' = now + took
    /\ UNCHANGED <<min_interval, last_request_ts, hpc, attempt, last_result,
                   call_result, retried_other>>
    /\ UNCHANGED <<procvars, mainvars, rolevars, discvars>>

\* line 529: the client is made with the rate of the command line; the clock
\* has run for some time
HttpInit ==
    /\ ProcessIdle
    /\ MainIdle
    /\ RoleIdle
    /\ DiscoverIdle
    /\ now \in 0..MaxInterval
    /\ min_interval \in 1..MaxInterval
    /\ last_request_ts = 0
    /\ hpc = "idle" /\ attempt = 0 /\ last_result = NoResult /\ call_result = None
    /\ retried_other = FALSE /\ requests = 0 /\ last_sent = 0 /\ gap = -1

HttpNext == H_Call \/ H_Throttle \/ H_Response \/ H_Backoff \/ H_Probe

HttpSpec == HttpInit /\ [][HttpNext]_vars

(***************************************************************************)
(* The section classifier on its own: a unit is drawn, the pre-content     *)
(* pass classifies it, and the post-content pass refines what the first    *)
(* pass returned (lines 1184-1186).  plain_text is given by its number of  *)
(* words, on and next to the thresholds of the second pass.                *)
(***************************************************************************)
MaxNotes == 4

WordCounts == {0, 59, 60, 79, 80, 149, 150, 179, 180}

\* the headings of the units given to the classifier ("" is no heading)
RoleHeadings == {"", "Vorwort", "Anmerkungen"}

R_Pre ==
    /\ rpc = "input"
    /\ pre_result' = classify_section_role_pre_content(unit.label, unit.heading,
                          unit.level, unit.order_index, unit.total_sections)
    /\ rpc' = "pre"
    /\ UNCHANGED <<unit, post_result>>
    /\ UNCHANGED <<procvars, mainvars, httpvars, discvars>>

R_Post ==
    /\ rpc = "pre"
    /\ post_result' = refine_section_role_post_content(pre_result.role,
                           pre_result.reasons, unit.word_count, unit.contains_verses,
                           unit.note_count, unit.level, unit.order_index,
                           unit.total_sections, unit.label, unit.heading)
    /\ rpc' = "post"
    /\ UNCHANGED <<unit, pre_result>>
    /\ UNCHANGED <<procvars, mainvars, httpvars, discvars>>

\* a unit of a table of contents of 1..MaxToc entries; a unit with verse lines
\* has words
RoleInit ==
    /\ ProcessIdle
    /\ MainIdle
    /\ HttpIdle
    /\ DiscoverIdle
    /\ \E label \in Labels, heading \in RoleHeadings, level \in 1..(MaxDepth + 1),
          total_sections \in 1..MaxToc, word_count \in WordCounts,
          contains_verses \in BOOLEAN, note_count \in 0..MaxNotes :
          \E order_index \in 1..total_sections :
            /\ contains_verses => word_count > 0
            /\ unit = [label |-> label, heading |-> heading, level |-> level,
                       order_index |-> order_index, total_sections |-> total_sections,
                       word_count |-> word_count, contains_verses |-> contains_verses,
                       note_count |-> note_count]
    /\ pre_result = NoRole
    /\ post_result = NoRole
    /\ rpc = "input"

RoleNext == R_Pre \/ R_Post

RoleSpec == RoleInit /\ [][RoleNext]_vars

(***************************************************************************)
(* discover_versions: the loop over the pages of the works list.  The URL  *)
(* of an index page is its number, 0 standing for None; start_url is page  *)
(* 1.  A page is [anchors, next]: its a.search-result-divisions-link       *)
(* anchors, each [href, text, small] (small is the text of its <small>     *)
(* element, "" without one), and its rel=next link [to, absolute]: the     *)
(* page the href leads to (0: no such link) and whether the href starts    *)
(* with 'http'.                                                            *)
(***************************************************************************)
MaxPages == 2

\* the loop cannot run more often than this in the model
MaxFetches == MaxPages + 2

Anchor(href, text, small) == [href |-> href, text |-> text, small |-> small]

\* 'deutsch' in indicator.lower()
IsDeutsch(indicator) == indicator \in {"Deutsch", "Bekenntnisse (deutsch)"}

\* lines 1351-1358: the hrefs of the anchors whose indicator names German, in order
GermanHrefs(anchors) ==
    LET indicator(a) == IF a.small # "" THEN a.small ELSE a.text
        german == SelectSeq(anchors, LAMBDA a : IsDeutsch(indicator(a)))
    IN  [i \in DOMAIN german |-> german[i].href]

\* the version of the i-th page of a works list that has one version per page
PagedHref(i) ==
    CASE i = 1 -> <<"de", "works", "cpl-251", "versions", "bekenntnisse", "divisions">>
      [] i = 2 -> <<"de", "works", "cpl-329", "versions", "de-trinitate", "divisions", "1">>
      [] i = 3 -> <<"de", "works", "cpl-251", "versions", "confessiones", "divisions">>
      [] OTHER -> <<"de", "works", "cpl-262", "versions", "ohne-titel", "divisions">>

\* the anchors of page i: the same two versions on every page; one version per
\* page next to a translation into English and a link that is no version; or
\* a version that the page before has as well
IndexAnchors(layout, i) ==
    CASE layout = "same" ->
             <<Anchor(PagedHref(1), "Bekenntnisse (deutsch)", ""),
               Anchor(PagedHref(2), "De Trinitate", "Deutsch")>>
      [] layout = "paged" ->
             <<Anchor(PagedHref(i), "Titel", "Deutsch"),
               Anchor(<<"en", "works", "cpl-329", "versions", "de-trinitate-2",
                        "divisions", "">>, "On the Trinity", "English"),
               Anchor(<<"de", "works", "cpl-251">>, "Deutsch", "")>>
      [] OTHER ->
             <<Anchor(PagedHref(i), "Titel", "Deutsch"),
               Anchor(PagedHref(i + 1), "Deutsch", "English"),
               Anchor(PagedHref(i + 1), "", "Deutsch")>>

IndexLayouts == {"same", "paged", "overlap"}

\* mutant: the page is not remembered
Visit_none(visited, url) == visited

\* line 1348: visited_pages.add(next_url)
Visit(visited, url) == visited \cup {url}

\* lines 1372-1383: the next_url after a page with the rel=next link `next`.  A
\* relative href is joined to the URL of the page with
\* httpx.URL(next_url).join(candidate).human_repr(); if that raises, the candidate
\* is None (joined says whether it returned)
NextUrl(next, joined, visited) ==
    LET candidate == IF next.to = 0 THEN 0
                     ELSE IF next.absolute \/ joined THEN next.to
                     ELSE 0
    IN  IF candidate # 0 /\ candidate \notin visited THEN candidate ELSE 0

\* line 1345: the condition of the while loop
LoopGoesOn ==
    next_url # 0 /\ (args_max_works = 0 \/ Len(discovered) < args_max_works)

\* lines 1345-1383: one turn of the loop: the page is fetched, its German versions
\* are added and the rel=next link is followed.  What fetch_soup raises leaves
\* discover_versions (and main, which has no try around the call, line 1427).
D_Page ==
    /\ dpc = "loop"
    /\ LoopGoesOn
    /\ next_url \notin visited_pages
    /\ Len(fetched) < MaxFetches
    /\ visited_pages' = Visit(visited_pages, next_url)
    /\ fetched' = Append(fetched, next_url)
    /\ \E result \in {"ok", "HTTPError"}, joined \in BOOLEAN :
        IF result # "ok"
        THEN /\ dpc' = "raised"
             /\ UNCHANGED <<next_url, discovered>>
        ELSE LET soup == index_pages[next_url]
                 found == DiscoverFrom(GermanHrefs(soup.anchors), args_max_works, 1,
                                       discovered)
             IN  /\ discovered' = found
                 /\ next_url' = IF args_max_works # 0 /\ Len(found) >= args_max_works
                                THEN next_url
                                ELSE NextUrl(soup.next, joined, visited_pages')
                 /\ UNCHANGED dpc
    /\ UNCHANGED <<index_pages, args_max_works>>
    /\ UNCHANGED <<procvars, mainvars, httpvars, rolevars>>

\* lines 1345-1347 and 1385: the loop ends and discovered is returned
D_Return ==
    /\ dpc = "loop"
    /\ ~LoopGoesOn \/ next_url \in visited_pages
    /\ dpc' = "returned"
    /\ UNCHANGED <<index_pages, args_max_works, next_url, visited_pages, discovered,
                   fetched>>
    /\ UNCHANGED <<procvars, mainvars, httpvars, rolevars>>

\* a works list of 1..MaxPages pages: every page may link to any page, itself
\* included, or to none; the links of a list are all absolute or all relative
DiscoverInit ==
    /\ ProcessIdle
    /\ MainIdle
    /\ HttpIdle
    /\ RoleIdle
    /\ \E n \in 1..MaxPages :
        \E to \in [1..n -> 0..n], absolute \in BOOLEAN, layout \in IndexLayouts :
            index_pages = [i \in 1..n |->
                              [anchors |-> IndexAnchors(layout, i),
                               next |-> [to |-> to[i], absolute |-> absolute]]]
    /\ args_max_works \in 0..MaxVersions
    /\ next_url = 1
    /\ visited_pages = {}
    /\ discovered = <<>>
    /\ fetched = <<>>
    /\ dpc = "loop"

DiscoverNext == D_Page \/ D_Return

DiscoverSpec == DiscoverInit /\ [][DiscoverNext]_vars

\* discover_versions is awaited by main: each fetch returns or raises, so the loop
\* takes its next step
DiscoverFair == DiscoverSpec /\ WF_vars(DiscoverNext)

(***************************************************************************)
(* Properties.                                                             *)
(***************************************************************************)
\* the first two processings both returned a qa_row and no fetch failed
TwoCleanRuns ==
    /\ Len(history) >= 2
    /\ history[1].status = "ok"
    /\ history[2].status = "ok"
    /\ failures = 0

\* the division page a passage was made from
PageOfPassage(p) ==
    LET sec == CHOOSE i \in DOMAIN sections : sections[i].id = p.section_id
    IN  PageAt(site, toc_entries[sections[sec].order_index].url)

LinesOfPassage(p) == {i \in DOMAIN verses : verses[i].passage_id = p.id}

\* C1: processing the same version again, with unchanged pages and a store that
\* holds the rows of the first processing, leaves the store with as many Section,
\* Passage, Verse, Note and NoteLink rows as it held after the first processing.
C1_RerunAddsNoRows ==
    TwoCleanRuns =>
        \A t \in {"sections", "passages", "verses", "notes", "note_links"} :
            history[2].built.stored[t] = history[1].built.stored[t]

\* C2: two processings of the same version with the same pages build the same
\* Author.id and Work.id and as many sections, passages, verses, notes and note
\* links.
C2_SameIdsAndCounts ==
    TwoCleanRuns =>
        /\ history[1].built.author_id = history[2].built.author_id
        /\ history[1].built.work_id = history[2].built.work_id
        /\ history[1].qa_row.sections = history[2].qa_row.sections
        /\ history[1].qa_row.passages = history[2].qa_row.passages
        /\ history[1].qa_row.verses = history[2].qa_row.verses
        /\ history[1].qa_row.notes = history[2].qa_row.notes
        /\ history[1].built.note_links = history[2].built.note_links

C2_Witness ==
    /\ TwoCleanRuns
    /\ history[2].qa_row.passages > 0
    /\ history[2].qa_row.notes > 0
    /\ history[2].built.note_links > 0
    /\ uuid_count > 0

\* C3: a Section with a parent_id has a level strictly greater than the level of
\* the Section its parent_id names.
C3_ChildBelowParent ==
    \A i \in DOMAIN sections :
        sections[i].parent_id # None =>
            \E j \in DOMAIN sections :
                /\ sections[j].id = sections[i].parent_id
                /\ sections[j].level < sections[i].level

\* a section whose parent is not the section right before it: the stack was popped
C3_Witness ==
    \E i, j \in DOMAIN sections :
        /\ j < i - 1
        /\ sections[i].parent_id = sections[j].id
        /\ sections[i - 1].level >= sections[i].level

\* C4: the order_index of the Sections of a Work strictly increases in the order
\* of the table of contents, so no two Sections share one, whatever max_sections.
C4_OrderIndexIncreases ==
    /\ \A i \in DOMAIN sections :
           /\ sections[i].label = toc_entries[i].label
           /\ sections[i].level = toc_entries[i].level
           /\ i > 1 => sections[i - 1].order_index < sections[i].order_index
    /\ \A i, j \in DOMAIN sections :
           i # j => sections[i].order_index # sections[j].order_index

C4_Witness ==
    /\ pc = "upsert"
    /\ max_sections = 2
    /\ Len(toc_entries) = 3
    /\ Len(sections) = 2
    /\ sections[2].level < sections[1].level

\* C5: when the notes and note links are handed to the store, the ids of the
\* notes are exactly the note_id values of the note links.
C5_NotesAreTheLinkedOnes ==
    pc \in {"upsert", "done"} =>
        {notes_list[i].id : i \in DOMAIN notes_list}
            = {note_links[i].note_id : i \in DOMAIN note_links}

\* notes are handed over and a note that no anchor refers to was dropped
C5_Witness ==
    /\ pc = "upsert"
    /\ notes_list # <<>>
    /\ Cardinality(DOMAIN notes_lookup) > Len(notes_list)

\* the key of an anchor of a page: of a superscript its text, of a footnote
\* reference the fragment of its link or else its text
OccurrenceKey(it) ==
    IF it.k = "sup" THEN normalise_note_key(it.t)
    ELSE IF it.k \in {"ref", "supref"}
    THEN (IF normalise_note_key(Fragment(it.href)) # ""
          THEN normalise_note_key(Fragment(it.href))
          ELSE normalise_note_key(it.t))
    ELSE ""

Occurrences(page, key) ==
    LET items == BodyItems(page.body)
    IN  {i \in DOMAIN items : key # "" /\ OccurrenceKey(items[i]) = key}

UnitKeys(page) ==
    {NoteEntries(page.footnotes)[i].key : i \in DOMAIN page.footnotes}

LinksFrom(p, key) ==
    {j \in DOMAIN note_links : /\ note_links[j].origin_passage_id = p.id
                               /\ note_links[j].origin_html_anchor = key}

\* C6: in a unit, the anchors whose key is one of the unit's footnote keys get one
\* NoteLink each: a key that occurs n times has n links from the unit's passage.
C6_OneLinkPerOccurrence ==
    \A i \in DOMAIN passages :
        \A key \in UnitKeys(PageOfPassage(passages[i])) :
            Cardinality(LinksFrom(passages[i], key))
                = Cardinality(Occurrences(PageOfPassage(passages[i]), key))

\* a key that a superscript and a rewritten reference both use, linked twice
C6_Witness ==
    \E i \in DOMAIN passages :
        LET page == PageOfPassage(passages[i])
            items == BodyItems(page.body)
        IN  /\ "1" \in UnitKeys(page)
            /\ Cardinality(LinksFrom(passages[i], "1")) = 2
            /\ \E a, b \in Occurrences(page, "1") :
                   items[a].k = "sup" /\ items[b].k = "ref"

\* C7: every Passage has at least one Verse row.
C7_PassageHasLines ==
    \A i \in DOMAIN passages : LinesOfPassage(passages[i]) # {}

\* the raw lines of a body that keep some text
NonEmptyLines(body) == Len(VerseLinesOf(SplitLines(BodyItems(body), <<>>)))

NoToc == TreeEntries(site.tree) = <<>> /\ walk_list(site.list, 1) = <<>>

\* the probe of division n raised, was not found or was too short
ProbeFailed(n) == n = probe_error \/ PageAt(site, n).status # "ok"

\* C9: without a table of contents, the entries are one level-1 entry for each of
\* the probes 1, 2, ... before the first that fails, in that order, and none for
\* that probe or a later one; each entry becomes one level-1 Section.
C9_ProbedEntries ==
    NoToc =>
        /\ pc \in {"loop", "upsert"} =>
               /\ \A n \in DOMAIN toc_entries :
                      /\ toc_entries[n].level = 1
                      /\ toc_entries[n].url = n
                      /\ ~ProbeFailed(n)
               /\ Len(toc_entries) < PROBE_LAST => ProbeFailed(Len(toc_entries) + 1)
        /\ pc = "upsert" =>
               /\ Len(sections) = Len(toc_entries)
               /\ \A n \in DOMAIN sections :
                      sections[n].level = 1 /\ sections[n].order_index = n
        /\ (pc = "done" /\ history[Len(history)].status = "no-toc") => ProbeFailed(1)

\* four divisions are probed, the fifth is not found: four level-1 Sections
C9_Witness ==
    /\ NoToc
    /\ pc = "upsert"
    /\ probe_error = 0
    /\ Len(site.pages) = 4
    /\ \A n \in 1..4 : site.pages[n].status = "ok"
    /\ Len(sections) = 4

\* a nested-list TOC of three top-level entries: a short prose "Vorwort", a long
\* chapter, and a long "Anhang", all fetched
ScenarioA ==
    /\ site.tree = <<>>
    /\ Len(site.list) = 3
    /\ site.list[1].label = "Vorwort" /\ site.pages[1] = ShortPage
    /\ site.list[2].label = "Kapitel 1" /\ site.pages[2] = LongPage
    /\ site.list[3].label = "Anhang" /\ site.pages[3] = LongPage
    /\ pc = "upsert"
    /\ Len(section_profiles) = 3

\* C10: in scenario A the roles after both passes are preface, main_text, appendix.
C10_ScenarioARoles ==
    ScenarioA =>
        [i \in DOMAIN section_profiles |-> section_profiles[i].role]
            = <<"preface", "main_text", "appendix">>

\* the number of TOC entries the loop is to visit
Visited ==
    IF max_sections # 0 THEN Min(max_sections, Len(toc_entries)) ELSE Len(toc_entries)

\* the Section made for the i-th entry has a Passage
HasPassage(i) == \E p \in DOMAIN passages : passages[p].section_id = sections[i].id

\* C11: a division fetch that fails after its retries skips that unit only: its
\* Section is kept and has no Passage; the loop still visits every remaining TOC
\* entry (each other entry with content gets its Passage), and the processing
\* ends with the Work and every Section written to the store.
C11_FailedUnitIsSkipped ==
    /\ \A i \in skipped :
           /\ i \in DOMAIN sections
           /\ sections[i].order_index = i
           /\ ~HasPassage(i)
    /\ (skipped # {} /\ pc \in {"upsert", "done"}) =>
           /\ Len(sections) = Visited
           /\ \A j \in 1..Visited :
                  (j \notin skipped /\ toc_entries[j].has_content /\ toc_entries[j].url # 0)
                      => HasPassage(j)
    /\ (skipped # {} /\ pc = "done") =>
           /\ history[Len(history)].status = "ok"
           /\ work \in store["works"]
           /\ Range(sections) \subseteq store["sections"]
           /\ Range(passages) \subseteq store["passages"]

\* the fetch of a unit failed, a later unit was fetched, and the Work is stored
C11_Witness ==
    /\ pc = "done"
    /\ \E i \in skipped : \E j \in DOMAIN sections : j > i /\ HasPassage(j)
    /\ work \in store["works"]

\* process_version was called for the i-th discovered version
WasAttempted(i) == \E k \in DOMAIN attempted : attempted[k].v = i

\* process_version raised for the i-th discovered version
FailedAt(i) ==
    \E k \in DOMAIN attempted :
        attempted[k].v = i /\ attempted[k].outcome \in {"HTTPError", "APIError", "Exception"}

\* C12: once process_version has raised for a version (transport exhaustion, a
\* persistence error, any unexpected exception), the run still comes to its end:
\* every later version of the list is attempted and the QA summary is written.
C12_FailureDoesNotEndRun ==
    \A i \in 1..MaxVersions :
        FailedAt(i) ~> (/\ mpc = "written"
                        /\ \A j \in (i + 1)..Len(version_urls) : WasAttempted(j)
                        /\ qa_csv = qa_rows)

\* the first version failed, the second was processed, the summary has its row
C12_Witness ==
    /\ mpc = "written"
    /\ Len(version_urls) >= 2
    /\ FailedAt(1)
    /\ \E k \in DOMAIN attempted : attempted[k].v = 2 /\ attempted[k].outcome = "row"
    /\ Len(qa_csv) = 1

\* a network error, a timeout, a server error status or the rate-limit status
TransientFailure(result) ==
    result \in {Raises("ConnectError"), Raises("ReadTimeout"), Response(500),
                Response(503), Response(429)}

\* C13: a call of fetch makes at most 5 attempts; an attempt is made again only
\* after a transient failure (an error of the transport, a status >= 500 or 429);
\* the call raises only when the fifth attempt has failed that way, and returns
\* any other response at the attempt that received it.
C13_RetryTransientUpToFive ==
    /\ attempt <= 5
    /\ ~retried_other
    /\ hpc = "wait" => TransientFailure(last_result) /\ attempt < 5
    /\ call_result = "raised" => attempt = 5 /\ TransientFailure(last_result)
    /\ call_result = "returned" => ~TransientFailure(last_result)

\* a call whose fifth attempt failed has raised
C13_Witness ==
    /\ call_result = "raised"
    /\ attempt = STOP_AFTER_ATTEMPT
    /\ last_result = Response(429)

\* C14: any two consecutive requests sent to the site, by fetch or by a synthetic
\* probe, are at least the minimum interval 1/rate apart.
C14_MinimumSpacing == requests >= 2 => gap >= min_interval

\* the batches of this processing that the store holds in full
Held == {n \in DOMAIN Tables : Range(Batch(n)) \subseteq store[Tables[n]]}

\* an upsert of this processing failed, or the run was interrupted at one
UpsertsFailed ==
    \/ \E k \in DOMAIN upsert_log : upsert_log[k].result \in {"rejected", "APIError"}
    \/ cancelled = "upsert"

\* the store answered a batch of this processing with 409
Conflicted == \E k \in DOMAIN upsert_log : upsert_log[k].result = "conflict"

\* C15: the upserts of a Work are one transaction: once they have begun, the store
\* holds every batch of this processing if none failed and the run was not
\* interrupted between them, and otherwise is as it was before the processing.
C15_AllOrNothing ==
    (pc \in {"done", "cancelled"} /\ upsert_log # <<>> /\ ~Conflicted) =>
        IF UpsertsFailed THEN store = store0 ELSE Held = DOMAIN Tables

\* C16: a run cancelled while it awaits the fetch of a division page stops there:
\* no step follows, no batch has been sent, and the store is as it was when the
\* processing of the Work in flight began.
C16_CancelledInFetchStops ==
    cancelled = "division page" =>
        /\ pc = "cancelled"
        /\ upsert_log = <<>>
        /\ store = store0

\* the run was cancelled in the fetch of a later unit, after a Passage was built
C16_Witness ==
    /\ cancelled = "division page"
    /\ pc = "cancelled"
    /\ passages # <<>>
    /\ Len(sections) > Len(passages)

\* C17: a batch the store answers with a status that is neither 2xx nor conflict
\* is logged and that same batch is sent again.
C17_FailedBatchIsSentAgain ==
    \A k \in DOMAIN upsert_log :
        upsert_log[k].result = "rejected" =>
            /\ upsert_log[k].warned
            /\ \E m \in DOMAIN upsert_log : m > k /\ upsert_log[m].table = upsert_log[k].table

\* the position of the version that --resume-from names
ResumeIndex == CHOOSE k \in DOMAIN version_urls : VersionOf(version_urls[k]) = resume_from

\* C18: with --resume-from set to the slug of a discovered version, main skips
\* exactly the versions before it and processes it and every version after it.
C18_ResumeFromSlug ==
    (/\ mpc = "written"
     /\ \E k \in DOMAIN version_urls : VersionOf(version_urls[k]) = resume_from)
        => \A i \in DOMAIN version_urls : WasAttempted(i) <=> i >= ResumeIndex

\* the records of the versions for which process_version built a Work
Built2 == {k \in DOMAIN attempted : attempted[k].work.id # None}

MetaOf(k) == VersionMeta(VersionOf(version_urls[attempted[k].v]))

SameWork(a, b) ==
    /\ attempted[a].work.work_slug = attempted[b].work.work_slug
    /\ attempted[a].work.id = attempted[b].work.id

\* the slug of the author and the slug of the title a version is filed under
FiledUnder(meta) ==
    <<slugify_name(author_display_of(meta.author)),
      slugify_name(work_title_of(meta.title, meta.orig_title))>>

FromProbes(entries) ==
    \A n \in DOMAIN entries :
        /\ entries[n].label = "Division " \o ToString(n)
        /\ entries[n].url = n
        /\ entries[n].level = 1

\* C20: the entries of the table of contents come from exactly one source: from
\* the descriptor if it gives an entry; else from the nested list if it gives one;
\* synthetic division URLs are requested only when both give none.
C20_TocSourceOrder ==
    LET from_tree == TreeEntries(site.tree)
        from_list == walk_list(site.list, 1)
    IN  /\ probes > 0 => from_tree = <<>> /\ from_list = <<>>
        /\ pc \in {"loop", "upsert"} =>
               /\ from_tree # <<>> => toc_entries = from_tree
               /\ (from_tree = <<>> /\ from_list # <<>>) => toc_entries = from_list
               /\ (from_tree = <<>> /\ from_list = <<>>) =>
                      /\ FromProbes(toc_entries)
                      /\ probes = Min(Len(toc_entries) + 1, 200)

\* the page has a descriptor and a nested list: the entries are the descriptor's
C20_Witness ==
    /\ pc = "loop"
    /\ TreeEntries(site.tree) # <<>>
    /\ walk_list(site.list, 1) # <<>>
    /\ toc_entries = TreeEntries(site.tree)
    /\ toc_entries # walk_list(site.list, 1)
    /\ probes = 0

\* the unit has been through both passes
Classified == rpc = "post"

\* the body has fewer than 80 words and at least one footnote
NotesDominant == unit.word_count < 80 /\ unit.note_count >= 1

\* C21 as stated: every unit with fewer than 80 words and at least one footnote
\* ends with the role notes, whatever the pre-content pass gave it
C21_FewWordsWithNoteIsNotes ==
    Classified /\ NotesDominant => post_result.role = "notes"

\* C21, amended: such a unit ends with the role notes unless the pre-content pass
\* gave it commentary, and then it ends with commentary
C21_FewWordsWithNoteIsNotesOrCommentary ==
    Classified /\ NotesDominant =>
        IF pre_result.role = "commentary" THEN post_result.role = "commentary"
        ELSE post_result.role = "notes"

\* a unit the first pass called an introduction, with 79 words and a footnote, has
\* become notes
C21_Witness ==
    /\ Classified
    /\ unit.word_count = 79 /\ unit.note_count = 1
    /\ pre_result.role = "introduction"
    /\ post_result.role = "notes"

\* C22: a unit with verse lines never ends with the role introduction or preface,
\* whatever its label, heading, position, word count and note count
C22_VerseUnitNotIntroduction ==
    Classified /\ unit.contains_verses =>
        post_result.role \notin {"introduction", "preface"}

\* a unit with verse lines that the first pass called a preface has become main text
C22_Witness ==
    /\ Classified
    /\ unit.contains_verses
    /\ pre_result.role = "preface"
    /\ post_result.role = "main_text"

\* the label or the heading has an introduction or preface keyword
IntroKeyword ==
    _contains_keyword(_normalise_classifier_text({unit.label, unit.heading}),
                      SECTION_INTRO_KEYWORDS \cup SECTION_PREFACE_KEYWORDS)

\* C24: a short early unit (one of the first two positions, fewer than 180 words,
\* no verse lines) ends with the role introduction only if its label or heading has
\* an introduction or preface keyword
C24_ShortEarlyIntroductionHasKeyword ==
    /\ Classified
    /\ unit.order_index <= 2 /\ unit.word_count < 180 /\ ~unit.contains_verses
    /\ post_result.role = "introduction"
    => IntroKeyword

\* the label or the heading has a keyword of one of the five roles
RoleKeyword ==
    _contains_keyword(_normalise_classifier_text({unit.label, unit.heading}),
                      SECTION_INTRO_KEYWORDS \cup SECTION_PREFACE_KEYWORDS
                      \cup SECTION_APPENDIX_KEYWORDS \cup SECTION_NOTES_KEYWORDS
                      \cup SECTION_COMMENTARY_KEYWORDS)

\* no keyword, positional or structural heuristic applies to the unit: it is not the
\* first or last entry at level 1, and has no chapter word and no Roman numeral
NoHeuristic ==
    /\ ~RoleKeyword
    /\ ~(unit.level = 1 /\ unit.order_index \in {1, unit.total_sections})
    /\ ~_contains_keyword(_normalise_classifier_text({unit.label, unit.heading}),
                          SECTION_MAIN_HINTS)
    /\ ~ROMAN_NUMERAL_RE_search_str(unit.label)
    /\ ~ROMAN_NUMERAL_RE_search_str(unit.heading)

\* C25: each pass returns one of the six roles and a reason list that is not empty,
\* and the first pass returns main_text when no heuristic applies
C25_ClassificationResolves ==
    /\ rpc # "input" => /\ pre_result.role \in Roles
                        /\ pre_result.reasons # <<>>
                        /\ NoHeuristic => pre_result.role = "main_text"
    /\ Classified => /\ post_result.role \in Roles
                     /\ post_result.reasons # <<>>

\* a unit to which no heuristic applies has been through both passes
C25_Witness ==
    /\ Classified
    /\ NoHeuristic
    /\ unit.label = "Text" /\ unit.level = 2
    /\ pre_result.role = "main_text"

\* the label or the title of the Section has a keyword of one of the five roles
HasRoleKeyword(s) ==
    _contains_keyword(_normalise_classifier_text({s.label, s.title}),
                      SECTION_INTRO_KEYWORDS \cup SECTION_PREFACE_KEYWORDS
                      \cup SECTION_APPENDIX_KEYWORDS \cup SECTION_NOTES_KEYWORDS
                      \cup SECTION_COMMENTARY_KEYWORDS)

\* the role the pre-content pass returned for a profiled unit: the first reason of
\* the profile is the one reason that pass gives
PrePassRole(p) ==
    LET code == p.role_reason[1]
    IN  CASE code \in {"keyword:introduction", "first-top-level"} -> "introduction"
          [] code = "keyword:preface"                             -> "preface"
          [] code \in {"keyword:appendix", "last-top-level"}      -> "appendix"
          [] code = "keyword:notes"                               -> "notes"
          [] code = "keyword:commentary"                          -> "commentary"
          [] OTHER                                                -> "main_text"

\* the positions of the level-1 entries of the table of contents
TopLevel == {i \in DOMAIN toc_entries : toc_entries[i].level = 1}

\* C23: of the units without a role keyword, the first level-1 unit of the TOC is
\* classified introduction by the pre-content pass and the last level-1 unit
\* appendix, also when deeper entries come before or after the level-1 units
C23_FirstAndLastTopLevel ==
    \A k \in DOMAIN section_profiles :
        LET p == section_profiles[k]
            i == p.order_index
        IN  (i \in TopLevel /\ ~HasRoleKeyword(sections[i])) =>
                /\ (\A j \in TopLevel : i <= j) => PrePassRole(p) = "introduction"
                /\ ((\A j \in TopLevel : j <= i) /\ (\E j \in TopLevel : j < i))
                       => PrePassRole(p) = "appendix"

\* the number of the draw that gave the identifier
DrawnAt(id) == CHOOSE n \in 1..uuid_count : generate_uuid(n) = id

\* the unit in whose turn of the loop the identifier was drawn: the last Section
\* drawn before it
UnitOfId(id) ==
    CHOOSE i \in DOMAIN sections :
        /\ DrawnAt(sections[i].id) <= DrawnAt(id)
        /\ \A j \in DOMAIN sections :
               DrawnAt(sections[j].id) <= DrawnAt(id)
                   => DrawnAt(sections[j].id) <= DrawnAt(sections[i].id)

\* C26: a NoteLink made from an anchor of one unit refers to a Note made from the
\* footnotes of the same unit, never to a Note of another TOC entry
C26_LinkStaysInItsUnit ==
    \A l \in DOMAIN note_links :
        UnitOfId(note_links[l].note_id) = UnitOfId(note_links[l].id)

\* the rows of the sequence have pairwise different conflict keys
DistinctKeys(table, rows) ==
    \A i, j \in DOMAIN rows :
        i # j => ConflictKey(table, rows[i]) # ConflictKey(table, rows[j])

\* C27: no batch that process_version sends has two rows with the same value of
\* the conflict target of its table
C27_NoConflictKeyTwiceInBatch ==
    pc \in {"upsert", "done"} =>
        \A n \in DOMAIN Tables : DistinctKeys(Tables[n], Batch(n))

\* the Sections before the i-th whose level is strictly lower
LowerBefore(i) == {j \in 1..(i - 1) : sections[j].level < sections[i].level}

\* C28: the parent of a Section is the nearest Section before it with a strictly
\* lower level, and there is no parent exactly when no Section before it has a
\* lower level; a parent has a smaller order_index than its child
C28_ParentIsNearestLower ==
    \A i \in DOMAIN sections :
        IF LowerBefore(i) = {}
        THEN sections[i].parent_id = None
        ELSE LET j == CHOOSE k \in LowerBefore(i) : \A m \in LowerBefore(i) : m <= k
             IN  /\ sections[i].parent_id = sections[j].id
                 /\ sections[j].order_index < sections[i].order_index

\* a Section whose parent is two or more Sections back, and a later Section without
\* a parent that follows a deeper one
C28_Witness ==
    \E i, k \in DOMAIN sections : \E j \in 1..(i - 2) :
        /\ sections[i].parent_id = sections[j].id
        /\ \A m \in (j + 1)..(i - 1) : sections[m].level >= sections[i].level
        /\ k > i
        /\ sections[k].parent_id = None
        /\ sections[k - 1].level > sections[k].level

\* the division fetch of the i-th entry succeeded: it was made, it did not raise
\* and the run was not cancelled in it
FetchSucceeded(i) ==
    /\ i \notin skipped
    /\ ~(pc = "cancelled" /\ cancelled = "division page" /\ i = Len(sections))

\* C30: a Section has at most one Passage, and it has one exactly when its TOC
\* entry has has_content, a URL and a division fetch that succeeded; the section_id
\* of every Passage is that of a Section of this Work made in the same run
C30_OnePassagePerFetchedSection ==
    /\ \A i \in DOMAIN sections :
           /\ Cardinality({p \in DOMAIN passages :
                              passages[p].section_id = sections[i].id}) <= 1
           /\ HasPassage(i) <=> /\ toc_entries[i].has_content
                                /\ toc_entries[i].url # 0
                                /\ FetchSucceeded(i)
    /\ \A p \in DOMAIN passages :
           \E i \in DOMAIN sections :
               /\ sections[i].id = passages[p].section_id
               /\ sections[i].work_id = work.id

\* a table of contents with an entry without content, an entry whose fetch failed
\* and an entry with a Passage, all three Sections made
C30_Witness ==
    /\ pc = "upsert"
    /\ \E i, j, k \in DOMAIN sections :
           /\ ~toc_entries[i].has_content /\ ~HasPassage(i)
           /\ j \in skipped /\ ~HasPassage(j)
           /\ HasPassage(k)

\* no element occurs twice in the sequence
NoRepeats(s) == \A i, j \in DOMAIN s : i # j => s[i] # s[j]

\* C29: discover_versions ends for every graph of index pages, also when the
\* rel=next links form a cycle or lead back to the page itself; no index page is
\* fetched twice and no URL is twice in the list returned
C29_DiscoveryTerminates ==
    /\ <>(dpc # "loop")
    /\ [](NoRepeats(fetched) /\ NoRepeats(discovered))

\* discovery has returned after two or more pages, the last of which links to a
\* page fetched before, and a version met on two pages is once in the list
C29_Witness ==
    /\ dpc = "returned"
    /\ Len(fetched) >= 2
    /\ index_pages[fetched[Len(fetched)]].next.to \in Range(fetched)
    /\ \E i, j \in Range(fetched) :
           /\ i # j
           /\ Range(GermanHrefs(index_pages[i].anchors))
                  \cap Range(GermanHrefs(index_pages[j].anchors)) # {}
    /\ discovered # <<>>

====
